---- MODULE Spec2Model ----
(***************************************************************************)
(* A model of the content pipeline of CapstoneERV4:                        *)
(*   - ContentGenerator.generate_content (backend/core/content_generator), *)
(*     the ordered provider chain with its templated fallback;             *)
(*   - SEOOptimizer (backend/core/seo_optimizer), its scoring functions    *)
(*     and the mutations of optimize, on texts that are sequences of       *)
(*     characters;                                                         *)
(*   - PlagiarismChecker (backend/core/plagiarism_checker), its four       *)
(*     plagiarism heuristics, the fact extraction, the hash-bucket fact    *)
(*     verification and the recommendations;                               *)
(*   - StyleRefiner.refine (backend/core/style_refiner), its steps in      *)
(*     order and the exception handler around them;                        *)
(*   - invocations of the four entry points that run concurrently on the   *)
(*     module-level instances of backend/main, and                         *)
(*     ContentGenerator.generate_multiple_variants.                        *)
(* Each component has its own specification; the variables of the other    *)
(* components stay at their initial values.                                *)
(***************************************************************************)
EXTENDS Integers, Sequences, FiniteSets, TLC

VARIABLES
    \* ContentGenerator instance state (content_generator.py 23-26)
    ollama_client, openai_client, anthropic_client, google_client,
    \* one generate_content call: its arguments, its position, the provider
    \* call it is waiting for, and its result
    preferred_model, prompt, content_type,
    gpc, awaiting, result,
    \* history of the call: the providers invoked, in order, and how each
    \* invocation ended
    calls, outcomes,
    \* SEOOptimizer under test: the text, the keyword list and the target URL
    \* it is called with, the number of times optimize was applied to the
    \* text, what the last call returned, and which mutations the last
    \* optimize made
    seo_content, seo_keywords, seo_target_url,
    seo_runs, seo_ret, seo_log,
    \* PlagiarismChecker under test: the text it is called with, the number
    \* of calls made, what the last call returned, and every result
    \* _verify_fact has returned so far
    plag_content, plag_calls, plag_ret, plag_verified,
    \* StyleRefiner under test: the arguments of the refine call and what
    \* it returned, with the record of the steps it took
    sty_content, sty_style, sty_length, sty_audience, sty_ret,
    \* Concurrent invocations on the shared instances of main.py: the frame
    \* of every invocation, and the rule tables the instances hold
    conc_tasks, conc_rules,
    \* generate_multiple_variants: its arguments, its position in the loop
    \* over the models, and the variants so far
    var_models, var_pc, var_variants

genVars == <<ollama_client, openai_client, anthropic_client, google_client,
             preferred_model, prompt, content_type, gpc, awaiting, result,
             calls, outcomes>>

seoVars == <<seo_content, seo_keywords, seo_target_url, seo_runs, seo_ret, seo_log>>

plagVars == <<plag_content, plag_calls, plag_ret, plag_verified>>

styVars == <<sty_content, sty_style, sty_length, sty_audience, sty_ret>>

concVars == <<conc_tasks, conc_rules>>
varVars == <<var_models, var_pc, var_variants>>

vars == <<genVars, seoVars, plagVars, styVars, concVars, varVars>>

\* The variables outside each component.
genRest == <<seoVars, plagVars, styVars, concVars, varVars>>
seoRest == <<genVars, plagVars, styVars, concVars, varVars>>
plagRest == <<genVars, seoVars, styVars, concVars, varVars>>
styRest == <<genVars, seoVars, plagVars, concVars, varVars>>

\* No SEOOptimizer call is under way.
NoSeoRet == [op |-> "none"]
NoSeoLog == [ran |-> FALSE]

SeoIdle ==
    /\ seo_content = ""
    /\ seo_keywords = <<>>
    /\ seo_target_url = ""
    /\ seo_runs = 0
    /\ seo_ret = NoSeoRet
    /\ seo_log = NoSeoLog

\* No PlagiarismChecker call was made.
NoPlagRet == [op |-> "none"]

NoStyRet == [op |-> "none"]

\* No concurrent invocations and no generate_multiple_variants call are in
\* progress.
ConcIdle ==
    /\ conc_tasks = << >>
    /\ conc_rules = << >>

VarIdle ==
    /\ var_models = << >>
    /\ var_pc = "idle"
    /\ var_variants = << >>

StyIdle ==
    /\ sty_content = ""
    /\ sty_style = ""
    /\ sty_length = ""
    /\ sty_audience = ""
    /\ sty_ret = NoStyRet

PlagIdle ==
    /\ plag_content = ""
    /\ plag_calls = 0
    /\ plag_ret = NoPlagRet
    /\ plag_verified = {}

(***************************************************************************)
(* ContentGenerator                                                        *)
(***************************************************************************)

Providers == {"ollama", "openai", "claude", "gemini"}

\* The order of the `if self.x_client:` blocks of generate_content.
DefaultOrder == <<"ollama", "openai", "claude", "gemini">>

\* preferred_model values: "auto", the four names the code knows, and a name
\* it does not know.
PreferredModels == {"auto", "ollama", "openai", "claude", "gemini", "mistral"}

\* How one `await self._generate_with_x(...)` can end inside the provider
\* function: the backend answered well, it answered with a non-200 status or
\* a malformed body, or the client library raised.
Outcomes == {"ok", "bad_response", "exception"}

\* The largest token count a backend reports.
MaxTokens == 1

\* A prompt is a sequence of lines; a line is its recognised prefix (or "")
\* and the text after it.
PromptLines ==
    { [prefix |-> "Title:", text |-> "ai"],
      [prefix |-> "Keywords:", text |-> "None"],
      [prefix |-> "", text |-> "write"] }

MaxPromptLines == 1

Prompts == UNION { [1..n -> PromptLines] : n \in 0..MaxPromptLines }

ContentTypes == {"article", "blog_post"}

\* The truth value of self.x_client for provider p.
Client(p) ==
    CASE p = "ollama" -> ollama_client
      [] p = "openai" -> openai_client
      [] p = "claude" -> anthropic_client
      [] p = "gemini" -> google_client
      [] OTHER -> FALSE

\* The text of the last line of pr with the given prefix, "" if none.
RECURSIVE FieldOf(_, _)
FieldOf(pr, prefix) ==
    IF pr = <<>> THEN ""
    ELSE LET last == pr[Len(pr)]
         IN IF last.prefix = prefix THEN last.text
            ELSE FieldOf(SubSeq(pr, 1, Len(pr) - 1), prefix)

NoContent ==
    [kind |-> "none", template |-> "", title |-> "", keywords |-> ""]

\* _generate_fallback_content: the template is chosen by the content type
\* and filled from the Title:/Keywords: lines of the prompt.
GenerateFallbackContent(pr, ct) ==
    [kind |-> "template",
     template |-> IF ct = "blog_post" THEN "blog_post" ELSE "generic",
     title |-> FieldOf(pr, "Title:"),
     keywords |-> IF FieldOf(pr, "Keywords:") \in {"", "None"}
                  THEN "default" ELSE FieldOf(pr, "Keywords:")]

\* model_used of a provider function's result.
ModelUsed(p, ok) ==
    CASE p = "ollama" -> IF ok THEN "ollama-llama3.2:latest" ELSE "ollama"
      [] p = "openai" -> IF ok THEN "gpt-3.5-turbo" ELSE "openai"
      [] p = "claude" -> "claude-3"
      [] p = "gemini" -> "gemini-pro"

\* A `try` of provider function p that would let the client library's
\* exceptions through for the HTTP providers.
CatchesOnlyLocalErrors(p) == p = "ollama"

\* Whether provider function p catches an exception of its body: each body
\* is one `try: ... except Exception`.
CatchesException(p) == TRUE

\* Whether the outbound call of provider function p is bounded in time.
\* ollama.chat (104-116) and requests.post (201-205, 245-248) are given no
\* timeout and wait for as long as the peer stays silent; the OpenAI client
\* of line 34 is built with its defaults, which bound every request.
CallTimeout(p) == p = "openai"

\* The dict a provider function returns: every path of its body ends in the
\* success dict or, through `except Exception`, in the error dict.
ProviderResult(p, outcome, tokens) ==
    IF outcome = "ok"
    THEN [content |-> [kind |-> "generated", template |-> "", title |-> "",
                       keywords |-> ""],
          model_used |-> ModelUsed(p, TRUE),
          tokens_used |-> tokens,
          status |-> "success"]
    ELSE [content |-> [kind |-> "failure", template |-> "", title |-> "",
                       keywords |-> ""],
          model_used |-> ModelUsed(p, FALSE),
          tokens_used |-> 0,
          status |-> "error"]

NoResult ==
    [content |-> NoContent, model_used |-> "", tokens_used |-> 0,
     status |-> "none"]

FallbackResult(pr, ct) ==
    [content |-> GenerateFallbackContent(pr, ct),
     model_used |-> "fallback",
     tokens_used |-> 0,
     status |-> "success"]

\* A chain that gives up once the preferred block did not return.
NextStageStraightToFallback(s) ==
    CASE s = "preferred" -> "fallback"
      [] s = "ollama" -> "openai"
      [] s = "openai" -> "claude"
      [] s = "claude" -> "gemini"
      [] s = "gemini" -> "fallback"

\* A chain without the block of claude.
NextStageWithoutClaude(s) ==
    CASE s = "preferred" -> "ollama"
      [] s = "ollama" -> "openai"
      [] s = "openai" -> "gemini"
      [] s = "claude" -> "gemini"
      [] s = "gemini" -> "fallback"

\* The stage after stage s of generate_content.
NextStage(s) ==
    CASE s = "preferred" -> "ollama"
      [] s = "ollama" -> "openai"
      [] s = "openai" -> "claude"
      [] s = "claude" -> "gemini"
      [] s = "gemini" -> "fallback"

\* A preferred block with its first branch only.
PreferredOnlyOllama(pm) == pm = "ollama" /\ Client(pm)

\* The condition of the preferred block: the name is one of the four and
\* that client is set.
PreferredUsable(pm) == pm \in Providers /\ Client(pm)

GenInit ==
    /\ ollama_client \in BOOLEAN
    /\ openai_client \in BOOLEAN
    /\ anthropic_client \in BOOLEAN
    /\ google_client \in BOOLEAN
    /\ preferred_model = "auto"
    /\ prompt = <<>>
    /\ content_type = "article"
    /\ gpc = "idle"
    /\ awaiting = "none"
    /\ result = NoResult
    /\ calls = <<>>
    /\ outcomes = <<>>
    /\ SeoIdle
    /\ PlagIdle
    /\ StyIdle
    /\ ConcIdle
    /\ VarIdle

genInst == <<ollama_client, openai_client, anthropic_client, google_client>>
genArgs == <<preferred_model, prompt, content_type>>

\* generate_content is called.
Call(pm, pr, ct) ==
    /\ gpc = "idle"
    /\ preferred_model' = pm
    /\ prompt' = pr
    /\ content_type' = ct
    /\ gpc' = "preferred"
    /\ result' = NoResult
    /\ calls' = <<>>
    /\ outcomes' = <<>>
    /\ UNCHANGED <<genInst, awaiting>>
    /\ UNCHANGED genRest

\* Lines 364-380: the preferred provider, when it is named and its client is
\* set, is invoked.
InvokePreferred ==
    /\ gpc = "preferred"
    /\ awaiting = "none"
    /\ preferred_model # "auto"
    /\ PreferredUsable(preferred_model)
    /\ awaiting' = preferred_model
    /\ calls' = Append(calls, preferred_model)
    /\ UNCHANGED <<genInst, genArgs, gpc, result, outcomes>>
    /\ UNCHANGED genRest

\* Lines 364-380 otherwise: "auto", an unknown name or an unset client.
SkipPreferred ==
    /\ gpc = "preferred"
    /\ awaiting = "none"
    /\ ~(preferred_model # "auto" /\ PreferredUsable(preferred_model))
    /\ gpc' = NextStage(gpc)
    /\ UNCHANGED <<genInst, genArgs, awaiting, result, calls, outcomes>>
    /\ UNCHANGED genRest

\* Lines 383-401: the block of provider gpc, its client set.
InvokeDefault ==
    /\ gpc \in Providers
    /\ awaiting = "none"
    /\ Client(gpc)
    /\ awaiting' = gpc
    /\ calls' = Append(calls, gpc)
    /\ UNCHANGED <<genInst, genArgs, gpc, result, outcomes>>
    /\ UNCHANGED genRest

\* Lines 383-401: the block of provider gpc, its client unset.
SkipDefault ==
    /\ gpc \in Providers
    /\ awaiting = "none"
    /\ ~Client(gpc)
    /\ gpc' = NextStage(gpc)
    /\ UNCHANGED <<genInst, genArgs, awaiting, result, calls, outcomes>>
    /\ UNCHANGED genRest

\* The awaited provider function returns; `if result["status"] == "success":
\* return result`, else the next block.
ProviderReturns(outcome, tokens) ==
    /\ awaiting # "none"
    /\ outcomes' = Append(outcomes, outcome)
    /\ awaiting' = "none"
    /\ IF outcome = "exception" /\ ~CatchesException(awaiting)
       THEN /\ gpc' = "raised"
            /\ UNCHANGED result
       ELSE LET r == ProviderResult(awaiting, outcome, tokens)
            IN IF r.status = "success"
               THEN /\ result' = r
                    /\ gpc' = "done"
               ELSE /\ gpc' = NextStage(gpc)
                    /\ UNCHANGED result
    /\ UNCHANGED <<genInst, genArgs, calls>>
    /\ UNCHANGED genRest

\* Lines 403-411.
Fallback ==
    /\ gpc = "fallback"
    /\ result' = FallbackResult(prompt, content_type)
    /\ gpc' = "done"
    /\ UNCHANGED <<genInst, genArgs, awaiting, calls, outcomes>>
    /\ UNCHANGED genRest

\* The caller takes the result; the call's frame is gone and the instance is
\* ready for the next call.
Return ==
    /\ gpc = "done"
    /\ gpc' = "idle"
    /\ preferred_model' = "auto"
    /\ prompt' = <<>>
    /\ content_type' = "article"
    /\ result' = NoResult
    /\ calls' = <<>>
    /\ outcomes' = <<>>
    /\ UNCHANGED <<genInst, awaiting>>
    /\ UNCHANGED genRest

GenNext ==
    \/ \E pm \in PreferredModels, pr \in Prompts, ct \in ContentTypes :
          Call(pm, pr, ct)
    \/ InvokePreferred
    \/ SkipPreferred
    \/ InvokeDefault
    \/ SkipDefault
    \/ \E o \in Outcomes, t \in 0..MaxTokens : ProviderReturns(o, t)
    \/ Fallback
    \/ Return

GenSpec == GenInit /\ [][GenNext]_vars

\* The steps generate_content takes by itself: the event loop runs a ready
\* coroutine, so each of them happens once it can.
GenProgramStep ==
    InvokePreferred \/ SkipPreferred \/ InvokeDefault \/ SkipDefault \/ Fallback

\* A bounded call gives up: the client raises, the provider function catches.
TimedOut ==
    /\ awaiting # "none"
    /\ CallTimeout(awaiting)
    /\ ProviderReturns("exception", 0)

\* A backend's answer is the backend's to give: it is fair only where a
\* timeout forces the wait to end.
GenLive ==
    /\ GenInit
    /\ [][GenNext]_vars
    /\ WF_vars(GenProgramStep)
    /\ WF_vars(TimedOut)

(***************************************************************************)
(* Text: Python str values are strings; their characters are the strings   *)
(* of length one.                                                          *)
(***************************************************************************)

\* The character at position i (1-based), "" outside the string.
Char(s, i) == IF 1 <= i /\ i <= Len(s) THEN SubSeq(s, i, i) ELSE ""

\* s[i-1:i-1+len(p)] == p, for a 1-based i; the first character is compared
\* before the slice is taken.
StartsAt(s, i, p) ==
    /\ i >= 1
    /\ i + Len(p) - 1 <= Len(s)
    /\ (p = "" \/ Char(s, i) = Char(p, 1))
    /\ SubSeq(s, i, i + Len(p) - 1) = p

\* The positions at which p occurs in s.
Occ(s, p) == { i \in 1..(Len(s) - Len(p) + 1) : StartsAt(s, i, p) }

\* `p in s`.
Contains(s, p) == \E i \in 1..(Len(s) - Len(p) + 1) : StartsAt(s, i, p)

SetMin(S) == CHOOSE x \in S : \A y \in S : x <= y
SetMax(S) == CHOOSE x \in S : \A y \in S : x >= y

\* The whitespace of str.split() and of \s.
IsSpace(c) == c \in {" ", "\n", "\t"}

\* \d.
IsDigit(c) == c \in {"0", "1", "2", "3", "4", "5", "6", "7", "8", "9"}

UpperLetters == "ABCDEFGHIJKLMNOPQRSTUVWXYZ"
LowerLetters == "abcdefghijklmnopqrstuvwxyz"

ToLowerMap ==
    [c \in {Char(UpperLetters, i) : i \in 1..Len(UpperLetters)} |->
        Char(LowerLetters, CHOOSE i \in 1..Len(UpperLetters) : Char(UpperLetters, i) = c)]

ToUpperMap ==
    [c \in {Char(LowerLetters, i) : i \in 1..Len(LowerLetters)} |->
        Char(UpperLetters, CHOOSE i \in 1..Len(LowerLetters) : Char(LowerLetters, i) = c)]

LowerChar(c) == IF c \in DOMAIN ToLowerMap THEN ToLowerMap[c] ELSE c
UpperChar(c) == IF c \in DOMAIN ToUpperMap THEN ToUpperMap[c] ELSE c
IsCased(c) == c \in DOMAIN ToLowerMap \/ c \in DOMAIN ToUpperMap

\* The least and the greatest element of a set of positions, 0 (or d) for the
\* empty set.
MinOr(S, d) == IF S = {} THEN d ELSE SetMin(S)
MinOrZero(S) == MinOr(S, 0)
MaxOrZero(S) == IF S = {} THEN 0 ELSE SetMax(S)

\* min(x, cap).
AtMost(x, cap) == IF x < cap THEN x ELSE cap

\* str.lower(), character by character.
RECURSIVE Lower(_)
Lower(s) ==
    IF Len(s) = 0 THEN ""
    ELSE IF Len(s) = 1 THEN LowerChar(s)
    ELSE Lower(SubSeq(s, 1, Len(s) \div 2)) \o Lower(SubSeq(s, Len(s) \div 2 + 1, Len(s)))

\* s.lower()[i-1:i-1+len(p)] == p for a lowered p: lower() maps character by
\* character, so a search in s.lower(), or one under re.IGNORECASE, is a
\* search in s that compares lowered characters.
LowerStartsAt(s, i, p) ==
    /\ i >= 1
    /\ i + Len(p) - 1 <= Len(s)
    /\ (p = "" \/ LowerChar(Char(s, i)) = Char(p, 1))
    /\ Lower(SubSeq(s, i, i + Len(p) - 1)) = p

\* The positions at which the lowered p occurs in s.lower().
OccLower(s, p) == { i \in 1..(Len(s) - Len(p) + 1) : LowerStartsAt(s, i, p) }

\* `p in s.lower()` for a lowered p.
ContainsLower(s, p) == \E i \in 1..(Len(s) - Len(p) + 1) : LowerStartsAt(s, i, p)

\* str.title(): a cased character is upper-cased when the character before
\* it is not cased, and lower-cased otherwise.
RECURSIVE TitleFrom(_, _)
TitleFrom(s, i) ==
    IF i > Len(s) THEN ""
    ELSE (IF i = 1 \/ ~IsCased(Char(s, i - 1))
          THEN UpperChar(Char(s, i)) ELSE LowerChar(Char(s, i)))
         \o TitleFrom(s, i + 1)

Title(s) == TitleFrom(s, 1)

Twice(s) == s \o s

\* s repeated n times.
RECURSIVE Repeat(_, _)
Repeat(s, n) ==
    IF n = 0 THEN ""
    ELSE IF n % 2 = 0 THEN Twice(Repeat(s, n \div 2))
    ELSE s \o Repeat(s, n - 1)

\* The first positions of the words of s.split().
WordStarts(s) ==
    { i \in 1..Len(s) : ~IsSpace(Char(s, i)) /\ (i = 1 \/ IsSpace(Char(s, i - 1))) }

\* The last position of the word that starts at i.
RECURSIVE WordEnd(_, _)
WordEnd(s, i) ==
    IF i = Len(s) \/ IsSpace(Char(s, i + 1)) THEN i ELSE WordEnd(s, i + 1)

WordAt(s, i) == SubSeq(s, i, WordEnd(s, i))

\* len(s.split()).
WordCount(s) == Cardinality(WordStarts(s))

\* str.count(p): the occurrences of p in s from position `from` on, taken
\* from the left without overlap; `at` is the first of them, 0 if none.
RECURSIVE CountLowerFrom(_, _, _)
CountLowerAfter(s, p, at) ==
    IF at = 0 THEN 0 ELSE 1 + CountLowerFrom(s, p, at + Len(p))

CountLowerFrom(s, p, from) ==
    CountLowerAfter(s, p,
        MinOrZero({ i \in from..(Len(s) - Len(p) + 1) : LowerStartsAt(s, i, p) }))

\* s.lower().count(p) for a lowered p.
StrCountLower(s, p) == IF p = "" THEN Len(s) + 1 ELSE CountLowerFrom(s, p, 1)

RECURSIVE CountFrom(_, _, _)
CountAfter(s, p, at) ==
    IF at = 0 THEN 0 ELSE 1 + CountFrom(s, p, at + Len(p))

CountFrom(s, p, from) ==
    CountAfter(s, p, MinOrZero({ i \in from..(Len(s) - Len(p) + 1) : StartsAt(s, i, p) }))

StrCount(s, p) == IF p = "" THEN Len(s) + 1 ELSE CountFrom(s, p, 1)

(***************************************************************************)
(* SEOOptimizer: rules and scoring                                         *)
(***************************************************************************)

\* self.seo_rules
TitleLengthMin == 30
TitleLengthMax == 60
MetaLengthMin == 120
MetaLengthMax == 160
ContentLengthMin == 300
ContentLengthMax == 2000

\* keyword_density min 0.5 and max 2.5 percent, as fractions n/d.
DensityMinNum == 1
DensityMinDen == 2
DensityMaxNum == 5
DensityMaxDen == 2

\* Scores are kept exactly, in units of 1/ScoreUnit: 0.2 is 12, 0.5 is 30,
\* k/n is 60k/n for the list lengths 1..6.
ScoreUnit == 60

\* Python's a / b, kept as the quotient of two integers; err stands for the
\* ZeroDivisionError of b = 0.
PyDiv(a, b) == [err |-> b = 0, num |-> a, den |-> IF b = 0 THEN 1 ELSE b]

\* q * 100.
Percent(q) == [err |-> q.err, num |-> q.num * 100, den |-> q.den]

\* A density computation without the guard on total_words.
DensityPercentageUnguarded(total_matches, total_words) ==
    Percent(PyDiv(total_matches, total_words))

\* (total_matches / total_words) * 100 if total_words > 0 else 0.
DensityPercentage(total_matches, total_words) ==
    IF total_words > 0
    THEN Percent(PyDiv(total_matches, total_words))
    ELSE [err |-> FALSE, num |-> 0, den |-> 1]

\* round(x, 2) in hundredths, for x = num/den >= 0.
RoundHundredths(f) == (2 * 100 * f.num + f.den) \div (2 * f.den)

\* exact_matches + partial_matches over the words of content.lower().split(),
\* which are the lowered words of content; starts holds their first
\* positions.
TotalMatches(content, starts, keyword_lower) ==
    Cardinality({ i \in starts : Lower(WordAt(content, i)) = keyword_lower })
    + Cardinality({ i \in starts : ContainsLower(WordAt(content, i), keyword_lower) })

\* The entry density[keyword]: count, density (in hundredths of a percent
\* point), optimal, and whether computing it raised.
DensityEntry(total_matches, density_percentage) ==
    [count |-> total_matches,
     density |-> RoundHundredths(density_percentage),
     optimal |-> /\ DensityMinNum * density_percentage.den
                      <= DensityMinDen * density_percentage.num
                 /\ DensityMaxDen * density_percentage.num
                      <= DensityMaxNum * density_percentage.den,
     raised |-> density_percentage.err]

\* The body of the loop of _calculate_keyword_density for one keyword.
KeywordEntry(total_matches, total_words) ==
    DensityEntry(total_matches, DensityPercentage(total_matches, total_words))

\* _calculate_keyword_density: the dict, keyed by keyword (a keyword listed
\* twice has one entry).
DensityDict(content, starts, keywords) ==
    [k \in { keywords[i] : i \in 1..Len(keywords) } |->
        KeywordEntry(TotalMatches(content, starts, Lower(k)), Cardinality(starts))]

CalculateKeywordDensity(content, keywords) ==
    DensityDict(content, WordStarts(content), keywords)

\* Whether computing some entry of the dict raised.
AnyRaised(density) == \E k \in DOMAIN density : density[k].raised

\* Whether _calculate_keyword_density raises on these arguments.
DensityRaises(content, keywords) == AnyRaised(CalculateKeywordDensity(content, keywords))

(***************************************************************************)
(* The regular expressions of the scorer, as searches over positions       *)
(***************************************************************************)

\* The first position >= i of s that holds character c, 0 if none.
NextChar(s, i, c) == MinOrZero({ j \in i..Len(s) : Char(s, j) = c })

\* The last position of the line that position i is on, i not a newline.
EndOfLine(s, i) == MinOr({ j \in i..Len(s) : Char(s, j) = "\n" }, Len(s) + 1) - 1

\* `^` under re.MULTILINE.
LineStart(s, i) == i = 1 \/ Char(s, i - 1) = "\n"

\* The last position of the run of whitespace that starts at i.
RECURSIVE SpaceRunEnd(_, _)
SpaceRunEnd(s, i) ==
    IF i < Len(s) /\ IsSpace(Char(s, i + 1)) THEN SpaceRunEnd(s, i + 1) ELSE i

\* The bounds of a group that starts at `from` and ends before `close`, <<>>
\* when there is no close.
GroupBefore(from, close) == IF close = 0 THEN <<>> ELSE <<from, close - 1>>

\* Group 1 of <h1[^>]*>(.*?)</h1>, given the position gt of the ">" that ends
\* the opening tag: it ends before the first "</h1>" after it on the same
\* line.
HtmlTitleGroup(s, gt) ==
    IF gt = 0 THEN <<>>
    ELSE GroupBefore(gt + 1,
             MinOrZero({ k \in (gt + 1)..EndOfLine(s, gt) :
                           LowerStartsAt(s, k, "</h1>") }))

\* <h1[^>]*>(.*?)</h1> with re.IGNORECASE, tried at position i: the bounds
\* <<from, to>> of group 1, or <<>>. The tag ends at the first ">".
HtmlTitleAt(s, i) ==
    IF ~LowerStartsAt(s, i, "<h1") THEN <<>>
    ELSE HtmlTitleGroup(s, NextChar(s, i + 3, ">"))

\* The one-character group that is left when the run of whitespace ends the
\* text: \s+ gives back up to the last character of the run that is no
\* newline.
GroupAt(k) == IF k = 0 THEN <<>> ELSE <<k, k>>

\* Group 1 of ^#\s+(.+)$, given the last position m of the run of whitespace
\* after the "#" at i: the rest of the line after the run.
MarkdownTitleGroup(s, i, m) ==
    IF m < Len(s) THEN <<m + 1, EndOfLine(s, m + 1)>>
    ELSE GroupAt(MaxOrZero({ k \in (i + 2)..m : Char(s, k) # "\n" }))

\* ^#\s+(.+)$ with re.MULTILINE, tried at position i: the bounds of group 1,
\* or <<>>.
MarkdownTitleAt(s, i) ==
    IF ~(LineStart(s, i) /\ Char(s, i) = "#" /\ i < Len(s) /\ IsSpace(Char(s, i + 1)))
    THEN <<>>
    ELSE MarkdownTitleGroup(s, i, SpaceRunEnd(s, i + 1))

\* The position of the first match of each title pattern, 0 if none.
HtmlTitleStart(content) ==
    MinOrZero({ i \in OccLower(content, "<h1") : HtmlTitleAt(content, i) # <<>> })

MarkdownTitleStart(content) ==
    MinOrZero({ i \in Occ(content, "#") : MarkdownTitleAt(content, i) # <<>> })

\* title_match = re.search(<h1>...) or re.search(^#...): group 1 of the first
\* one that matches.
TitleGroup(content, html, md) ==
    IF html # 0 THEN HtmlTitleAt(content, html)
    ELSE IF md # 0 THEN MarkdownTitleAt(content, md)
    ELSE <<>>

TitleOf(content, g) ==
    [found |-> g # <<>>,
     title |-> IF g = <<>> THEN "" ELSE SubSeq(content, g[1], g[2])]

\* The title the scorer and _optimize_title see; found is FALSE when neither
\* pattern matches.
FindTitle(content) ==
    TitleOf(content,
            TitleGroup(content, HtmlTitleStart(content), MarkdownTitleStart(content)))

\* any(keyword.lower() in title.lower() for keyword in keywords)
KeywordInTitle(title, keywords) ==
    \E i \in 1..Len(keywords) : ContainsLower(title, Lower(keywords[i]))

\* A title score that counts the keyword on top of a full length score.
TitleScoreKeywordBonus(t, keywords) ==
    IF t.found
    THEN (IF TitleLengthMin <= Len(t.title) /\ Len(t.title) <= TitleLengthMax
          THEN ScoreUnit ELSE (2 * ScoreUnit) \div 10)
         + (IF KeywordInTitle(t.title, keywords) THEN (5 * ScoreUnit) \div 10 ELSE 0)
    ELSE 0

EvaluateTitleKeywordBonus(content, keywords) ==
    TitleScoreKeywordBonus(FindTitle(content), keywords)

\* The score of the title match t: 0.5 for a title of 30..60 characters, 0.2
\* for another one, plus 0.5 when a keyword occurs in it; 0.0 without title.
TitleScore(t, keywords) ==
    IF t.found
    THEN (IF TitleLengthMin <= Len(t.title) /\ Len(t.title) <= TitleLengthMax
          THEN (5 * ScoreUnit) \div 10 ELSE (2 * ScoreUnit) \div 10)
         + (IF KeywordInTitle(t.title, keywords) THEN (5 * ScoreUnit) \div 10 ELSE 0)
    ELSE 0

\* _evaluate_title
EvaluateTitle(content, keywords) == TitleScore(FindTitle(content), keywords)

\* sum(1 for data in density.values() if data["optimal"])
OptimalCount(density) == Cardinality({ k \in DOMAIN density : density[k].optimal })

\* The quotient q as a score, and whether computing it or the dict raised.
DensityScore(density, q) ==
    [raised |-> q.err \/ AnyRaised(density),
     score |-> (q.num * ScoreUnit) \div q.den]

\* A density score without the guard on the empty keyword list.
OptimalShareUnguarded(density, keywords) ==
    DensityScore(density, PyDiv(OptimalCount(density), Len(keywords)))

EvaluateKeywordDensityUnguarded(content, keywords) ==
    OptimalShareUnguarded(CalculateKeywordDensity(content, keywords), keywords)

\* optimal_count / len(keywords) if keywords else 0.0
OptimalShare(density, keywords) ==
    DensityScore(density,
                 IF keywords # <<>> THEN PyDiv(OptimalCount(density), Len(keywords))
                 ELSE [err |-> FALSE, num |-> 0, den |-> 1])

\* _evaluate_keyword_density, and whether computing it raised.
EvaluateKeywordDensity(content, keywords) ==
    OptimalShare(CalculateKeywordDensity(content, keywords), keywords)

\* Whether <tag[^>]*> with re.IGNORECASE matches somewhere: the tag's opening
\* and some ">" after it.
HasTag(content, tag) ==
    \E i \in OccLower(content, tag) : NextChar(content, i + Len(tag), ">") # 0

\* _evaluate_content_structure: 0.3 for an <h1>, 0.4 for an <h2>, 0.3 for an
\* <h3>, at most 1.0.
EvaluateContentStructure(content) ==
    AtMost((IF HasTag(content, "<h1") THEN (3 * ScoreUnit) \div 10 ELSE 0)
           + (IF HasTag(content, "<h2") THEN (4 * ScoreUnit) \div 10 ELSE 0)
           + (IF HasTag(content, "<h3") THEN (3 * ScoreUnit) \div 10 ELSE 0),
           ScoreUnit)

\* A length score that gives a text below the minimum no credit at all.
LengthScoreNoPartialCredit(word_count) ==
    IF ContentLengthMin <= word_count /\ word_count <= ContentLengthMax
    THEN ScoreUnit
    ELSE IF word_count < ContentLengthMin THEN 0
    ELSE (7 * ScoreUnit) \div 10

\* The score of a text of word_count words: 1.0 for 300..2000 words, 0.3
\* below, 0.7 above.
LengthScore(word_count) ==
    IF ContentLengthMin <= word_count /\ word_count <= ContentLengthMax
    THEN ScoreUnit
    ELSE IF word_count < ContentLengthMin THEN (3 * ScoreUnit) \div 10
    ELSE (7 * ScoreUnit) \div 10

\* _evaluate_content_length
EvaluateContentLength(content) == LengthScore(WordCount(content))

Quotes == {"\"", "'"}

\* The first position >= i of s that holds a quote character, 0 if none.
NextQuote(s, i) == MinOrZero({ j \in i..Len(s) : Char(s, j) \in Quotes })

\* The positions from i on that [^>]* can reach: up to the first ">".
BeforeGt(s, i) == i..(MinOr({ j \in i..Len(s) : Char(s, j) = ">" }, Len(s) + 1) - 1)

\* name=["']description["'] at position a, under re.IGNORECASE.
NameDescriptionAt(s, a) ==
    /\ LowerStartsAt(s, a, "name=")
    /\ Char(s, a + 5) \in Quotes
    /\ LowerStartsAt(s, a + 6, "description")
    /\ Char(s, a + 17) \in Quotes

\* content=["'] at position c, under re.IGNORECASE.
ContentAttrAt(s, c) == LowerStartsAt(s, c, "content=") /\ Char(s, c + 8) \in Quotes

\* <meta[^>]*name=["']description["'] with re.IGNORECASE: whether it matches.
HasMetaDescription(content) ==
    \E i \in OccLower(content, "<meta") :
       \E a \in BeforeGt(content, i + 5) : NameDescriptionAt(content, a)

\* The positions at which [^>]*content=["']([^"']*)["'] can put its content=
\* after the name attribute at a.
ContentAttrs(s, a) ==
    { c \in BeforeGt(s, a + 18) : ContentAttrAt(s, c) /\ NextQuote(s, c + 9) # 0 }

\* The positions at which <meta[^>]* at i can put a name attribute that lets
\* the rest of the pattern match.
MetaNames(s, i) ==
    { a \in BeforeGt(s, i + 5) : NameDescriptionAt(s, a) /\ ContentAttrs(s, a) # {} }

\* <meta[^>]*name=["']description["'][^>]*content=["']([^"']*)["'] tried at
\* position i: the length of group 1, or -1. Each [^>]* takes the longest
\* stretch that lets the rest match.
MetaContentLengthAt(s, i) ==
    IF MetaNames(s, i) = {} THEN -1
    ELSE NextQuote(s, SetMax(ContentAttrs(s, SetMax(MetaNames(s, i)))) + 9)
         - (SetMax(ContentAttrs(s, SetMax(MetaNames(s, i)))) + 9)

\* 1.0 for a description of 120..160 characters, 0.5 for another one.
MetaLengthScore(meta_length) ==
    IF MetaLengthMin <= meta_length /\ meta_length <= MetaLengthMax
    THEN ScoreUnit ELSE (5 * ScoreUnit) \div 10

\* The score given the position of the first match of the pattern, 0 if none.
MetaScore(content, at) ==
    IF at = 0 THEN 0 ELSE MetaLengthScore(MetaContentLengthAt(content, at))

\* _evaluate_meta_description: 0.0 without a description.
EvaluateMetaDescription(content) ==
    MetaScore(content,
              MinOrZero({ i \in OccLower(content, "<meta") :
                            MetaContentLengthAt(content, i) >= 0 }))

\* The ">" that ends ([^"']*)["'][^>]*> after the quote that follows the
\* href value at position q, 0 if none.
CloseAfterQuote(s, q) == IF q = 0 THEN 0 ELSE NextChar(s, q + 1, ">")

\* The same for the href=["'] at position a.
HrefClose(s, a) == CloseAfterQuote(s, NextQuote(s, a + 6))

\* The positions at which <a[^>]* at i can put an href that lets the rest of
\* the pattern match.
Hrefs(s, i) ==
    { a \in BeforeGt(s, i + 2) :
        /\ StartsAt(s, a, "href=")
        /\ Char(s, a + 5) \in Quotes
        /\ HrefClose(s, a) # 0 }

\* <a[^>]*href=["']([^"']*)["'][^>]*> tried at position i: the position of
\* the ">" that ends the match, or 0.
LinkEndAt(s, i) ==
    IF ~StartsAt(s, i, "<a") THEN 0
    ELSE IF Hrefs(s, i) = {} THEN 0
    ELSE HrefClose(s, SetMax(Hrefs(s, i)))

\* len(re.findall(...)) for the link pattern: the matches from position
\* `from` on, from the left, each starting after the one before; `at` is the
\* first of them, 0 if none.
RECURSIVE LinkCountFrom(_, _)
LinkCountAfter(s, at) ==
    IF at = 0 THEN 0 ELSE 1 + LinkCountFrom(s, LinkEndAt(s, at) + 1)

LinkCountFrom(s, from) ==
    LinkCountAfter(s, MinOrZero({ i \in from..Len(s) :
                                    StartsAt(s, i, "<a") /\ LinkEndAt(s, i) # 0 }))

\* 1.0 for two links or more, 0.5 for one.
LinksScore(link_count) ==
    IF link_count >= 2 THEN ScoreUnit
    ELSE IF link_count = 1 THEN (5 * ScoreUnit) \div 10
    ELSE 0

\* _evaluate_internal_links
EvaluateInternalLinks(content) == LinksScore(LinkCountFrom(content, 1))

\* The weights of _calculate_seo_score.
TitleWeight == 20
DensityWeight == 25
StructureWeight == 20
LengthWeight == 15
MetaWeight == 10
LinksWeight == 10
MaxScore == 100

\* The six component scores (in 1/ScoreUnit), the total min(score,
\* max_score) (in 1/ScoreUnit points), and whether the computation raised.
SeoScoreOf(title_score, density, structure_score, length_score, meta_score, links_score) ==
    [title |-> title_score, density |-> density.score,
     structure |-> structure_score, length |-> length_score,
     meta |-> meta_score, links |-> links_score,
     total |-> AtMost(title_score * TitleWeight + density.score * DensityWeight
                      + structure_score * StructureWeight + length_score * LengthWeight
                      + meta_score * MetaWeight + links_score * LinksWeight,
                      MaxScore * ScoreUnit),
     raised |-> density.raised]

\* _calculate_seo_score
CalculateSeoScore(content, keywords) ==
    SeoScoreOf(EvaluateTitle(content, keywords),
               EvaluateKeywordDensity(content, keywords),
               EvaluateContentStructure(content),
               EvaluateContentLength(content),
               EvaluateMetaDescription(content),
               EvaluateInternalLinks(content))

(***************************************************************************)
(* SEOOptimizer: the mutations of optimize                                 *)
(***************************************************************************)

\* A title step that looks at the keywords only.
OptimizeTitleAlways(content, keywords) ==
    IF keywords # <<>>
    THEN "# " \o Title(keywords[1]) \o " - Complete Guide" \o "\n\n" \o content
    ELSE content

\* _optimize_title: without a title and with keywords, a markdown title made
\* of the first keyword is put before the content.
OptimizeTitle(content, keywords) ==
    IF ~FindTitle(content).found /\ keywords # <<>>
    THEN "# " \o Title(keywords[1]) \o " - Complete Guide" \o "\n\n" \o content
    ELSE content

\* ^##\s+ with re.MULTILINE: whether it matches.
HasMarkdownH2(content) ==
    \E i \in Occ(content, "##") : LineStart(content, i) /\ IsSpace(Char(content, i + 2))

\* The section inserted as the second paragraph, given the position k of
\* the first blank line (0 if none): content.split('\n\n') cuts at the
\* occurrences of the blank line from the left and the join puts them back,
\* so the section and its two separators land at the first one.
InsertSection(content, keywords, k) ==
    IF k = 0 THEN content
    ELSE SubSeq(content, 1, k - 1) \o "\n\n"
         \o "\n## Why " \o Title(keywords[1]) \o " Matters\n" \o "\n\n"
         \o SubSeq(content, k + 2, Len(content))

\* _optimize_headings: without <h2> and without markdown subheading, with
\* keywords and at least two paragraphs.
OptimizeHeadings(content, keywords) ==
    IF ~HasTag(content, "<h2") /\ ~HasMarkdownH2(content) /\ keywords # <<>>
    THEN InsertSection(content, keywords, MinOrZero(Occ(content, "\n\n")))
    ELSE content

KeywordSentencePrefix == " This is particularly important when considering "

\* The pieces of content.split('. '), given the positions seps of the
\* separators: where they start, and where the piece that starts at c ends.
PieceStarts(seps) == {1} \cup { p + 2 : p \in seps }
PieceEnd(content, seps, c) == MinOr({ p \in seps : p >= c }, Len(content) + 1) - 1

\* The pieces longer than 20 characters that do not hold the keyword.
FitPieces(content, seps, keyword_lower) ==
    { c \in PieceStarts(seps) :
        /\ PieceEnd(content, seps, c) - c + 1 > 20
        /\ ~ContainsLower(SubSeq(content, c, PieceEnd(content, seps, c)), keyword_lower) }

\* The sentence appended to the piece that ends at e; the join puts the
\* pieces back.
AppendSentence(content, keyword, e) ==
    SubSeq(content, 1, e) \o KeywordSentencePrefix \o keyword \o "."
    \o SubSeq(content, e + 1, Len(content))

\* The pieces are looked at from the left; the first that fits gets the
\* sentence.
AddKeywordTo(content, seps, keyword, fit) ==
    IF fit = {} THEN content
    ELSE AppendSentence(content, keyword, PieceEnd(content, seps, SetMin(fit)))

AddKeywordIn(content, seps, keyword) ==
    AddKeywordTo(content, seps, keyword, FitPieces(content, seps, Lower(keyword)))

\* _add_keyword_naturally
AddKeywordNaturally(content, keyword) == AddKeywordIn(content, Occ(content, ". "), keyword)

\* int((target_density / 100) * total_words) for target_density = 1.5.
TargetCount(total_words) == (3 * total_words) \div 200

\* _optimize_keyword_usage for the keywords from index i on, one after the
\* other on the content as changed so far.
RECURSIVE OptimizeKeywordUsageFrom(_, _, _)
OptimizeKeywordUsageFrom(content, keywords, i) ==
    IF i > Len(keywords) THEN content
    ELSE OptimizeKeywordUsageFrom(
             IF StrCountLower(content, Lower(keywords[i])) < TargetCount(WordCount(content))
             THEN AddKeywordNaturally(content, keywords[i])
             ELSE content,
             keywords, i + 1)

OptimizeKeywordUsage(content, keywords) == OptimizeKeywordUsageFrom(content, keywords, 1)

\* str.replace(old, new) from position `from` on; `at` is the first
\* occurrence of old from there, 0 if none.
RECURSIVE ReplaceFrom(_, _, _, _)
ReplaceAt(s, old, new, from, at) ==
    IF at = 0 THEN SubSeq(s, from, Len(s))
    ELSE SubSeq(s, from, at - 1) \o new \o ReplaceFrom(s, old, new, at + Len(old))

ReplaceFrom(s, old, new, from) ==
    ReplaceAt(s, old, new, from,
              MinOrZero({ i \in from..(Len(s) - Len(old) + 1) : StartsAt(s, i, old) }))

MetaDescription(keywords) ==
    "Learn about " \o (IF keywords # <<>> THEN keywords[1] ELSE "content")
    \o " with our comprehensive guide. Discover best practices, tips, and insights."

MetaTag(keywords) ==
    "<meta name=\"description\" content=\"" \o MetaDescription(keywords) \o "\">"

\* _add_meta_description: without a description tag, one is put after every
\* <head>, or before the content when there is no <head>.
AddMetaDescription(content, keywords) ==
    IF ~HasMetaDescription(content)
    THEN IF Contains(content, "<head>")
         THEN ReplaceFrom(content, "<head>", "<head>\n" \o MetaTag(keywords), 1)
         ELSE MetaTag(keywords) \o "\n\n" \o content
    ELSE content

\* The last position of the run of digits that starts at i.
RECURSIVE DigitRunEnd(_, _)
DigitRunEnd(s, i) ==
    IF IsDigit(Char(s, i + 1)) THEN DigitRunEnd(s, i + 1) ELSE i

\* (\d+\.\s+) matches from position i: a whole run of digits, a dot and
\* whitespace.
NumberedAt(s, i) ==
    /\ IsDigit(Char(s, i))
    /\ ~IsDigit(Char(s, i - 1))
    /\ Char(s, DigitRunEnd(s, i) + 1) = "."
    /\ IsSpace(Char(s, DigitRunEnd(s, i) + 2))

\* re.sub(r'(\d+\.\s+)', '* ', s) from position `from` on; `at` is the first
\* match from there, 0 if none, and a match takes the whole run of
\* whitespace.
RECURSIVE BulletsFrom(_, _)
BulletsAt(s, from, at) ==
    IF at = 0 THEN SubSeq(s, from, Len(s))
    ELSE SubSeq(s, from, at - 1) \o "* "
         \o BulletsFrom(s, SpaceRunEnd(s, DigitRunEnd(s, at) + 2) + 1)

BulletsFrom(s, from) ==
    BulletsAt(s, from, MinOrZero({ i \in from..Len(s) : NumberedAt(s, i) }))

SummarySection ==
    "\n\n## Summary\nThis comprehensive guide provides valuable insights and practical advice."

\* re.search(r'conclusion|summary|final', content, re.IGNORECASE)
HasConclusion(content) ==
    \/ ContainsLower(content, "conclusion")
    \/ ContainsLower(content, "summary")
    \/ ContainsLower(content, "final")

\* The summary is appended where the text has no conclusion.
AddSummary(content) ==
    IF ~HasConclusion(content) THEN content \o SummarySection ELSE content

\* _optimize_content_structure
OptimizeContentStructure(content) ==
    AddSummary(IF Contains(content, "Key Points") \/ Contains(content, "Benefits")
               THEN BulletsFrom(content, 1) ELSE content)

LinkSection ==
    "\n\n## Related Content\n- [More about this topic](/related)\n- [Best practices](/best-practices)\n- [FAQ](/faq)"

\* The first position >= i of s that holds one of "/", "?", "#"; Len(s) + 1
\* if none.
NetlocEnd(s, i) == MinOr({ j \in i..Len(s) : Char(s, j) \in {"/", "?", "#"} }, Len(s) + 1)

\* Whether the letters before the colon at position `colon` are a scheme.
HasScheme(url, colon) == colon > 1 /\ \A j \in 1..(colon - 1) : IsCased(Char(url, j))

\* What follows "//" at position `from`, up to the path, query or fragment.
NetlocFrom(url, from) ==
    IF StartsAt(url, from, "//")
    THEN SubSeq(url, from + 2, NetlocEnd(url, from + 2) - 1)
    ELSE ""

\* urlparse(url).netloc: what follows "//" at the start or after the scheme.
Netloc(url) ==
    NetlocFrom(url, IF HasScheme(url, NextChar(url, 1, ":"))
                    THEN NextChar(url, 1, ":") + 1 ELSE 1)

\* The target_url None.
NoUrl == ""

\* A links step that adds the section only where none is there yet.
AddLinkSuggestionsOnce(content, target_url) ==
    IF target_url # NoUrl /\ Netloc(target_url) # ""
       /\ ~Contains(content, "## Related Content")
    THEN content \o LinkSection
    ELSE content

\* _add_link_suggestions
AddLinkSuggestions(content, target_url) ==
    IF target_url # NoUrl /\ Netloc(target_url) # ""
    THEN content \o LinkSection
    ELSE content

(***************************************************************************)
(* SEOOptimizer: get_suggestions                                           *)
(***************************************************************************)

\* The entry of the loop over density.items() for one keyword, given the
\* rounded density in hundredths of a percent point: a "Low" suggestion
\* below the minimum, a "High" one above the maximum.
DensitySuggestion(keyword, density) ==
    IF density * DensityMinDen < 100 * DensityMinNum
    THEN << "Low keyword density for '" \o keyword \o "' - consider adding more naturally" >>
    ELSE IF density * DensityMaxDen > 100 * DensityMaxNum
    THEN << "High keyword density for '" \o keyword \o "' - reduce keyword stuffing" >>
    ELSE << >>

\* The loop over density.items(): the dict keeps the keywords in the order
\* of their first occurrence in the list.
RECURSIVE DensitySuggestionsFrom(_, _, _)
DensitySuggestionsFrom(density, keywords, i) ==
    IF i > Len(keywords) THEN << >>
    ELSE (IF \E j \in 1..(i - 1) : keywords[j] = keywords[i]
          THEN << >>
          ELSE DensitySuggestion(keywords[i], density[keywords[i]].density))
         \o DensitySuggestionsFrom(density, keywords, i + 1)

\* `^#\s+` and `^##\s+` without re.MULTILINE: `^` is the start of the text
\* only.
StartsWithMarker(content, marker) ==
    /\ StartsAt(content, 1, marker)
    /\ IsSpace(Char(content, Len(marker) + 1))

\* re.search(r'<h1[^>]*>|^#\s+', content, re.IGNORECASE)
SuggestionsSeeTitle(content) ==
    HasTag(content, "<h1") \/ StartsWithMarker(content, "#")

\* re.search(r'<h2[^>]*>|^##\s+', content, re.IGNORECASE)
SuggestionsSeeH2(content) ==
    HasTag(content, "<h2") \/ StartsWithMarker(content, "##")

\* The positions at which <a[^>]* at i can put an href=["'] whose value is
\* closed by a quote.
SuggestHrefs(s, i) ==
    { a \in BeforeGt(s, i + 2) :
        /\ StartsAt(s, a, "href=")
        /\ Char(s, a + 5) \in Quotes
        /\ NextQuote(s, a + 6) # 0 }

\* <a[^>]*href=["']([^"']*)["'] tried at position i: the position of the
\* quote that ends the match, or 0.
SuggestLinkEndAt(s, i) ==
    IF ~StartsAt(s, i, "<a") THEN 0
    ELSE IF SuggestHrefs(s, i) = {} THEN 0
    ELSE NextQuote(s, SetMax(SuggestHrefs(s, i)) + 6)

\* len(re.findall(...)) for that pattern, counted as LinkCountFrom counts.
RECURSIVE SuggestLinkCountFrom(_, _)
SuggestLinkCountAfter(s, at) ==
    IF at = 0 THEN 0 ELSE 1 + SuggestLinkCountFrom(s, SuggestLinkEndAt(s, at) + 1)

SuggestLinkCountFrom(s, from) ==
    SuggestLinkCountAfter(s, MinOrZero({ i \in from..Len(s) :
                                           StartsAt(s, i, "<a") /\ SuggestLinkEndAt(s, i) # 0 }))

MissingTitle == "Missing H1 title - add a compelling title with target keywords"

\* The five checks that follow the density loop, each adding at most one
\* suggestion.
StructureSuggestions(content) ==
    (IF SuggestionsSeeTitle(content) THEN << >> ELSE << MissingTitle >>)
    \o (IF SuggestionsSeeH2(content) THEN << >>
        ELSE << "Missing H2 headings - add subheadings to improve structure" >>)
    \o (IF WordCount(content) < ContentLengthMin
        THEN << "Content is too short - expand to provide more value" >> ELSE << >>)
    \o (IF HasMetaDescription(content) THEN << >>
        ELSE << "Missing meta description - add for better search results" >>)
    \o (IF SuggestLinkCountFrom(content, 1) < 2
        THEN << "Add more internal links to improve site structure" >> ELSE << >>)

\* get_suggestions
GetSuggestions(content, keywords) ==
    DensitySuggestionsFrom(CalculateKeywordDensity(content, keywords), keywords, 1)
    \o StructureSuggestions(content)

(***************************************************************************)
(* SEOOptimizer: optimize and the calls under test                         *)
(***************************************************************************)

\* The six steps of optimize, in the order of the code; each works on the
\* text the step before it made and adds its own to the list.
AfterTitle(steps, kws) == Append(steps, OptimizeTitle(steps[1], kws))
AfterHeadings(steps, kws) == Append(steps, OptimizeHeadings(steps[2], kws))
AfterKeywordUsage(steps, kws) == Append(steps, OptimizeKeywordUsage(steps[3], kws))
AfterMetaDescription(steps, kws) == Append(steps, AddMetaDescription(steps[4], kws))
AfterContentStructure(steps) == Append(steps, OptimizeContentStructure(steps[5]))
AfterLinkSuggestions(steps, url) == Append(steps, AddLinkSuggestions(steps[6], url))

\* The text after each of the six steps of optimize, in order, with the
\* input first.
OptimizeSteps(c0, kws, url) ==
    AfterLinkSuggestions(
        AfterContentStructure(
            AfterMetaDescription(
                AfterKeywordUsage(
                    AfterHeadings(AfterTitle(<<c0>>, kws), kws), kws), kws)), url)

\* The tuple optimize returns, given the density and the score of its input
\* (computed first) and of the text its steps made (computed last): any
\* exception of the body gives (content, {}, 0.0).
OptimizeReturn(steps, current_density, current_score, final_density, final_score) ==
    IF \/ AnyRaised(current_density) \/ current_score.raised
       \/ AnyRaised(final_density) \/ final_score.raised
    THEN [op |-> "optimize", failed |-> TRUE, optimized_content |-> steps[1],
          keyword_density |-> <<>>, current_score |-> current_score,
          seo_score |-> [ current_score EXCEPT !.title = 0, !.density = 0,
                            !.structure = 0, !.length = 0, !.meta = 0,
                            !.links = 0, !.total = 0, !.raised = FALSE ]]
    ELSE [op |-> "optimize", failed |-> FALSE, optimized_content |-> steps[7],
          keyword_density |-> final_density,
          current_score |-> current_score,
          seo_score |-> final_score]

\* optimize, given the texts its steps produce.
OptimizeResult(steps, kws) ==
    OptimizeReturn(steps,
                   CalculateKeywordDensity(steps[1], kws), CalculateSeoScore(steps[1], kws),
                   CalculateKeywordDensity(steps[7], kws), CalculateSeoScore(steps[7], kws))

Optimize(c0, kws, url) == OptimizeResult(OptimizeSteps(c0, kws, url), kws)

\* Which steps of one run of optimize changed the text, and how many keyword
\* sentences, summary sections and link sections the run added.
StepLog(steps) ==
    [ran |-> TRUE,
     title |-> steps[2] # steps[1],
     heading |-> steps[3] # steps[2],
     keyword_sentences |-> StrCount(steps[4], KeywordSentencePrefix)
                           - StrCount(steps[3], KeywordSentencePrefix),
     meta |-> steps[5] # steps[4],
     summary |-> StrCount(steps[6], SummarySection) - StrCount(steps[5], SummarySection),
     links |-> StrCount(steps[7], LinkSection) - StrCount(steps[6], LinkSection)]

\* The structural pieces the texts under test are made of: markdown and
\* HTML titles, headings, a meta description, links, a numbered list, plain
\* sentences, whitespace, a keyword alone, and a page that has all of them.
MetaSegment ==
    "<meta name=\"description\" content=\"" \o Repeat("descr ", 20) \o "end\">"

LinksSegment == "<a href=\"/a\">a</a> <a href='/b'>b</a>"

Segments ==
    { "# Title summary",
      "# A complete guide to ai and seo basics",
      "<h1>Ai Guide</h1>\n<h2>Part</h2>\n<h3>Sub</h3>",
      MetaSegment,
      LinksSegment,
      "Key Points\n1. ai ai\n22. seo",
      "Hello world. This sentence is long enough",
      " \n\t ",
      "Ai",
      "<H1 class=\"t\">A complete guide to ai and seo basics</H1>\n<h2>Part</h2>\n"
          \o MetaSegment \o "\n" \o LinksSegment }

\* The bodies of words that follow them: none, 80 words of which one is a
\* keyword, and 300 words.
Words80 == Repeat("w ", 79) \o "ai"
Words300 == Repeat("w ", 300)
Bodies == { <<>>, <<Words80>>, <<Words300>> }

\* A text is up to MaxParts structural segments and a body, each a paragraph
\* of its own.
MaxParts == 1

RECURSIVE JoinParagraphs(_)
JoinParagraphs(parts) ==
    IF parts = <<>> THEN ""
    ELSE IF Len(parts) = 1 THEN parts[1]
    ELSE parts[1] \o "\n\n" \o JoinParagraphs(Tail(parts))

Contents ==
    { JoinParagraphs(parts \o body) :
        parts \in UNION { [1..n -> Segments] : n \in 0..MaxParts }, body \in Bodies }

KeywordPool == {"ai", "seo"}

MaxKeywords == 2

KeywordLists == UNION { [1..n -> KeywordPool] : n \in 0..MaxKeywords }

TargetUrls == { NoUrl, "https://example.com/post", "/post" }

MaxRuns == 2

GenIdle ==
    /\ ollama_client = FALSE
    /\ openai_client = FALSE
    /\ anthropic_client = FALSE
    /\ google_client = FALSE
    /\ preferred_model = "auto"
    /\ prompt = <<>>
    /\ content_type = "article"
    /\ gpc = "idle"
    /\ awaiting = "none"
    /\ result = NoResult
    /\ calls = <<>>
    /\ outcomes = <<>>

SeoInit ==
    /\ seo_content \in Contents
    /\ seo_keywords \in KeywordLists
    /\ seo_target_url \in TargetUrls
    /\ seo_runs = 0
    /\ seo_ret = NoSeoRet
    /\ seo_log = NoSeoLog
    /\ GenIdle
    /\ PlagIdle
    /\ StyIdle
    /\ ConcIdle
    /\ VarIdle

\* What a call of optimize whose steps made the texts `steps` leaves behind.
OptimizeReturns(steps) ==
    /\ seo_ret' = OptimizeResult(steps, seo_keywords)
    /\ seo_content' = seo_ret'.optimized_content
    /\ seo_log' = StepLog(steps)

\* optimize(content, keywords, target_url) is called and its output becomes
\* the text under test.
RunOptimize ==
    /\ seo_ret.op \in {"none", "optimize"}
    /\ seo_runs < MaxRuns
    /\ OptimizeReturns(OptimizeSteps(seo_content, seo_keywords, seo_target_url))
    /\ seo_runs' = seo_runs + 1
    /\ UNCHANGED <<seo_keywords, seo_target_url>>
    /\ UNCHANGED seoRest

\* _calculate_seo_score(content, keywords) is called.
RunScore ==
    /\ seo_ret.op \in {"none", "optimize"}
    /\ seo_ret' = [op |-> "score", seo_score |-> CalculateSeoScore(seo_content, seo_keywords)]
    /\ UNCHANGED <<seo_content, seo_keywords, seo_target_url, seo_runs, seo_log>>
    /\ UNCHANGED seoRest

\* _calculate_keyword_density(content, keywords) is called.
RunDensity ==
    /\ seo_ret.op \in {"none", "optimize"}
    /\ seo_ret' = [op |-> "density",
                   keyword_density |-> CalculateKeywordDensity(seo_content, seo_keywords),
                   raised |-> DensityRaises(seo_content, seo_keywords)]
    /\ UNCHANGED <<seo_content, seo_keywords, seo_target_url, seo_runs, seo_log>>
    /\ UNCHANGED seoRest

\* get_suggestions(content, keywords) is called.
RunSuggestions ==
    /\ seo_ret.op \in {"none", "optimize"}
    /\ seo_ret' = [op |-> "suggestions",
                   suggestions |-> GetSuggestions(seo_content, seo_keywords)]
    /\ UNCHANGED <<seo_content, seo_keywords, seo_target_url, seo_runs, seo_log>>
    /\ UNCHANGED seoRest

SeoNext ==
    \/ RunOptimize
    \/ RunScore
    \/ RunDensity
    \/ RunSuggestions

SeoSpec == SeoInit /\ [][SeoNext]_vars

(***************************************************************************)
(* PlagiarismChecker: the four plagiarism heuristics                       *)
(***************************************************************************)

\* str.split(sep) for a non-empty sep: the pieces between the occurrences of
\* sep, taken from the left without overlap; `at` is the first occurrence
\* from position `from` on, 0 if none.
RECURSIVE SplitFrom(_, _, _)
SplitAfter(s, sep, from, at) ==
    IF at = 0 THEN << SubSeq(s, from, Len(s)) >>
    ELSE << SubSeq(s, from, at - 1) >> \o SplitFrom(s, sep, at + Len(sep))

SplitFrom(s, sep, from) ==
    SplitAfter(s, sep, from,
               MinOrZero({ i \in from..(Len(s) - Len(sep) + 1) : StartsAt(s, i, sep) }))

Split(s, sep) == SplitFrom(s, sep, 1)

\* str.strip(): s from its first to its last character that is no
\* whitespace.
StripBetween(s, first, last) == IF first = 0 THEN "" ELSE SubSeq(s, first, last)

Strip(s) ==
    StripBetween(s, MinOrZero({ i \in 1..Len(s) : ~IsSpace(Char(s, i)) }),
                 MaxOrZero({ i \in 1..Len(s) : ~IsSpace(Char(s, i)) }))

\* The sub-scores are kept in tenths and the plagiarism score, their mean,
\* in fortieths.
SubScoreUnit == 10
PlagUnit == 40

\* num / den > hundredths / 100, for den > 0.
Exceeds(num, den, hundredths) == 100 * num > hundredths * den

\* The if/elif chain on a ratio that all four heuristics end with: the
\* score (in tenths) of the first threshold (in hundredths) that num / den
\* exceeds, 0.0 if it exceeds none.
Banded(num, den, thresholds, scores) ==
    IF Exceeds(num, den, thresholds[1]) THEN scores[1]
    ELSE IF Exceeds(num, den, thresholds[2]) THEN scores[2]
    ELSE IF Exceeds(num, den, thresholds[3]) THEN scores[3]
    ELSE 0

\* self.common_phrases
CommonPhrases ==
    << "in conclusion", "it is important to note", "furthermore", "moreover",
       "however", "therefore", "as a result", "in addition",
       "on the other hand", "for example" >>

\* phrase_count: the sum of content_lower.count(phrase) over the phrases
\* from index i on.
RECURSIVE PhraseCountFrom(_, _)
PhraseCountFrom(content, i) ==
    IF i > Len(CommonPhrases) THEN 0
    ELSE StrCountLower(content, CommonPhrases[i]) + PhraseCountFrom(content, i + 1)

\* _check_common_phrases
CheckCommonPhrases(content) ==
    IF WordCount(content) = 0 THEN 0
    ELSE Banded(PhraseCountFrom(content, 1), WordCount(content),
                <<5, 3, 1>>, <<3, 2, 1>>)

\* common_patterns of _simulate_exact_match
CommonPatterns ==
    { "This is a comprehensive guide", "In this article, we will",
      "The importance of", "It is essential to", "As mentioned earlier" }

\* _simulate_exact_match
SimulateExactMatch(sentence) ==
    \E pattern \in CommonPatterns : ContainsLower(sentence, Lower(pattern))

\* exact_matches, for the pieces of content.split('. ')
ExactMatches(sentences) ==
    Cardinality({ i \in 1..Len(sentences) :
                    /\ Len(Strip(sentences[i])) > 10
                    /\ SimulateExactMatch(sentences[i]) })

\* The rest of a heuristic once its pieces are counted.
RatioScore(count, pieces, thresholds, scores) ==
    IF Len(pieces) = 0 THEN 0
    ELSE Banded(count, Len(pieces), thresholds, scores)

\* _check_exact_matches
CheckExactMatches(content) ==
    RatioScore(ExactMatches(Split(content, ". ")), Split(content, ". "),
               <<10, 5, 2>>, <<8, 5, 2>>)

\* similar_structures of _simulate_similar_content
SimilarStructures ==
    { "The key benefits include", "There are several advantages",
      "It is important to consider", "This approach provides",
      "The main advantages are" }

\* _simulate_similar_content
SimulateSimilarContent(paragraph) ==
    \E structure \in SimilarStructures : ContainsLower(paragraph, Lower(structure))

\* similar_paragraphs, for the pieces of content.split('\n\n')
SimilarParagraphs(paragraphs) ==
    Cardinality({ i \in 1..Len(paragraphs) :
                    /\ Len(Strip(paragraphs[i])) > 20
                    /\ SimulateSimilarContent(paragraphs[i]) })

\* _check_similar_content
CheckSimilarContent(content) ==
    RatioScore(SimilarParagraphs(Split(content, "\n\n")), Split(content, "\n\n"),
               <<30, 15, 5>>, <<7, 4, 2>>)

\* sentence.strip().lower() of every piece.
CleanSentences(sentences) ==
    [ i \in 1..Len(sentences) |-> Lower(Strip(sentences[i])) ]

\* sentence_counts: for each non-empty cleaned sentence, how many pieces
\* clean to it.
SentenceCounts(clean) ==
    [ c \in { clean[i] : i \in 1..Len(clean) } \ {""} |->
        Cardinality({ i \in 1..Len(clean) : clean[i] = c }) ]

\* copied_sentences: count - 1 summed over the sentences that appear more
\* than once.
RECURSIVE CopiedIn(_, _)
CopiedWith(counts, left, c) ==
    (IF counts[c] > 1 THEN counts[c] - 1 ELSE 0) + CopiedIn(counts, left \ {c})

CopiedIn(counts, left) ==
    IF left = {} THEN 0 ELSE CopiedWith(counts, left, CHOOSE c \in left : TRUE)

CopiedSentences(sentences) ==
    CopiedIn(SentenceCounts(CleanSentences(sentences)),
             DOMAIN SentenceCounts(CleanSentences(sentences)))

\* _check_copied_sentences
CheckCopiedSentences(content) ==
    RatioScore(CopiedSentences(Split(content, ". ")), Split(content, ". "),
               <<10, 5, 2>>, <<6, 3, 1>>)

\* The sum of the sub-scores, not divided by their number.
PlagiarismSum(common, exact, similar, copied) ==
    [common |-> common, exact |-> exact, similar |-> similar, copied |-> copied,
     score |-> AtMost(((common + exact + similar + copied) * PlagUnit)
                          \div SubScoreUnit, PlagUnit)]

\* sum(scores) / len(scores), capped at 1.0, with the four sub-scores.
PlagiarismOf(common, exact, similar, copied) ==
    [common |-> common, exact |-> exact, similar |-> similar, copied |-> copied,
     score |-> AtMost(((common + exact + similar + copied) * PlagUnit)
                          \div (4 * SubScoreUnit), PlagUnit)]

\* A score that is the highest of the four sub-scores.
CheckPlagiarismWorst(content) ==
    [ PlagiarismOf(CheckCommonPhrases(content), CheckExactMatches(content),
                   CheckSimilarContent(content), CheckCopiedSentences(content))
      EXCEPT !.score = (SetMax({ CheckCommonPhrases(content), CheckExactMatches(content),
                                 CheckSimilarContent(content),
                                 CheckCopiedSentences(content) }) * PlagUnit)
                           \div SubScoreUnit ]

\* _check_plagiarism
CheckPlagiarism(content) ==
    PlagiarismOf(CheckCommonPhrases(content), CheckExactMatches(content),
                 CheckSimilarContent(content), CheckCopiedSentences(content))

(***************************************************************************)
(* PlagiarismChecker: fact extraction and verification                     *)
(***************************************************************************)

\* The attribution phrases of factual_patterns, each followed by [^.]*.
FactPhrases ==
    << "according to ", "studies show ", "research indicates ",
       "the fact that ", "it is known that " >>

\* The number of factual_patterns: \d{4}, \d+%, \$\d+ and the five phrases.
NumFactPatterns == 3 + Len(FactPhrases)

\* The last position of the match of pattern k that starts at position i of
\* s, 0 if the pattern does not match there. \d+ takes the whole run of
\* digits and [^.]* everything up to the next period.
MatchEnd(s, i, k) ==
    IF k = 1
    THEN (IF \A j \in i..(i + 3) : IsDigit(Char(s, j)) THEN i + 3 ELSE 0)
    ELSE IF k = 2
    THEN (IF IsDigit(Char(s, i)) /\ Char(s, DigitRunEnd(s, i) + 1) = "%"
          THEN DigitRunEnd(s, i) + 1 ELSE 0)
    ELSE IF k = 3
    THEN (IF Char(s, i) = "$" /\ IsDigit(Char(s, i + 1))
          THEN DigitRunEnd(s, i + 1) ELSE 0)
    ELSE (IF LowerStartsAt(s, i, FactPhrases[k - 3])
          THEN MinOr({ j \in (i + Len(FactPhrases[k - 3]))..Len(s) : Char(s, j) = "." },
                     Len(s) + 1) - 1
          ELSE 0)

\* re.findall(pattern k, s, re.IGNORECASE) from position `from` on: the
\* matches from the left without overlap; `at` is where the first one
\* starts, 0 if none.
RECURSIVE FindAllFrom(_, _, _)
FindAllAfter(s, k, at) ==
    IF at = 0 THEN << >>
    ELSE << SubSeq(s, at, MatchEnd(s, at, k)) >> \o FindAllFrom(s, k, MatchEnd(s, at, k) + 1)

FindAllFrom(s, k, from) ==
    FindAllAfter(s, k, MinOrZero({ i \in from..Len(s) : MatchEnd(s, i, k) # 0 }))

\* The matches of the patterns from k on, pattern after pattern.
RECURSIVE PatternFacts(_, _)
PatternFacts(content, k) ==
    IF k > NumFactPatterns THEN << >>
    ELSE FindAllFrom(content, k, 1) \o PatternFacts(content, k + 1)

\* The words that mark a sentence as a claim.
ClaimWords == { "study", "research", "found", "discovered", "proved" }

\* Whether a piece of content.split('. ') is taken as a fact: it holds a
\* digit or one of the claim words.
IsFactSentence(sentence) ==
    \/ \E i \in 1..Len(sentence) : IsDigit(Char(sentence, i))
    \/ \E word \in ClaimWords : ContainsLower(sentence, word)

\* The pieces taken as facts, in text order.
FactSentences(sentences) == SelectSeq(sentences, IsFactSentence)

\* facts[:10]
MaxFacts == 10
FirstFacts(facts) == SubSeq(facts, 1, AtMost(Len(facts), MaxFacts))

\* The fragments without the limit to 10.
ExtractAllFacts(content) ==
    PatternFacts(content, 1) \o FactSentences(Split(content, ". "))

\* _extract_facts
ExtractFacts(content) ==
    FirstFacts(PatternFacts(content, 1) \o FactSentences(Split(content, ". ")))

\* The model's stand-in for a lone surrogate code point (U+D800..U+DFFF): a
\* Python str can hold one and str.encode() raises UnicodeEncodeError on it.
Surrogate == "^"

\* Whether fact.encode() returns.
Encodes(fact) == \A i \in 1..Len(fact) : Char(fact, i) # Surrogate

\* verification_results; the confidence is kept in tenths.
VerificationResults ==
    << [status |-> "verified", confidence |-> 9, source |-> "reliable_source"],
       [status |-> "disputed", confidence |-> 7, source |-> "multiple_sources"],
       [status |-> "unverified", confidence |-> 3, source |-> "no_sources"],
       [status |-> "false", confidence |-> 8, source |-> "fact_check_org"] >>

\* _get_fact_suggestion
GetFactSuggestion(status) ==
    CASE status = "verified" ->
             "This fact appears to be accurate based on reliable sources."
      [] status = "disputed" ->
             "This claim is disputed by multiple sources. Consider providing additional context."
      [] status = "unverified" ->
             "This claim could not be verified. Consider adding a source or removing the claim."
      [] status = "false" ->
             "This claim appears to be incorrect. Please verify and correct the information."
      [] status = "error" -> "Unable to verify this claim. Please check your sources."
      [] OTHER -> "Please verify this information."

\* The result dict built from the chosen verification result.
FactResult(fact, chosen) ==
    [fact |-> fact, status |-> chosen.status, confidence |-> chosen.confidence,
     source |-> chosen.source, suggestion |-> GetFactSuggestion(chosen.status)]

\* The dict of the except branch.
FactErrorResult(fact) ==
    [fact |-> fact, status |-> "error", confidence |-> 0, source |-> "unknown",
     suggestion |-> "Unable to verify this fact"]

\* int(hashlib.md5(fact.encode()).hexdigest()[:2], 16): the first byte of the
\* MD5 digest of each fact of the model.
Md5FirstByte ==
    "2020" :> 123
    @@ "15%" :> 245
    @@ "$5" :> 135
    @@ "According to a study it cost $5" :> 101
    @@ "Research indicates growth" :> 198
    @@ "In 2020 sales rose 15%" :> 217
    @@ "1111" :> 181
    @@ "2222" :> 147
    @@ "3333" :> 43
    @@ "4444" :> 219
    @@ "5555" :> 96
    @@ "6666" :> 233
    @@ "7%" :> 143
    @@ "8%" :> 215
    @@ "9%" :> 219
    @@ "$1" :> 6
    @@ "1999" :> 94
    @@ "STUDIES SHOW That" :> 239
    @@ "studies show more" :> 176
    @@ "Proved" :> 191
    @@ "1234" :> 129
    @@ "5678" :> 103
    @@ "12345678%" :> 240
    @@ "99%" :> 145
    @@ "$12" :> 176
    @@ "12345678% and $12x" :> 130
    @@ "99%5" :> 202
    @@ "$2" :> 3
    @@ "1111 2222 3333 4444 5555 6666" :> 138
    @@ "the sky is blue" :> 144

\* int(fact_hash[:2], 16) % len(verification_results), as a 1-based index.
ResultIndex(fact) == (Md5FirstByte[fact] % Len(VerificationResults)) + 1

\* A verification whose bucket moves with the number of results returned so
\* far.
VerifyFactByTurn(fact) ==
    IF Encodes(fact)
    THEN FactResult(fact,
             VerificationResults[((Md5FirstByte[fact] + Cardinality(plag_verified))
                                     % Len(VerificationResults)) + 1])
    ELSE FactErrorResult(fact)

\* _verify_fact
VerifyFact(fact) ==
    IF Encodes(fact)
    THEN FactResult(fact, VerificationResults[ResultIndex(fact)])
    ELSE FactErrorResult(fact)

\* _check_facts on the extracted facts: one result per fact, in order.
VerifyAll(facts) == [ i \in 1..Len(facts) |-> VerifyFact(facts[i]) ]

\* A check that extracts and verifies facts whether asked to or not.
CheckAlwaysFacts(content, check_facts) ==
    [op |-> "check", check_facts |-> check_facts,
     plagiarism |-> CheckPlagiarism(content),
     extracted |-> ExtractFacts(content),
     fact_check_results |-> VerifyAll(ExtractFacts(content))]

\* check: the plagiarism score with its sub-scores, the facts extracted and
\* the fact list returned.
Check(content, check_facts) ==
    [op |-> "check", check_facts |-> check_facts,
     plagiarism |-> CheckPlagiarism(content),
     extracted |-> IF check_facts THEN ExtractFacts(content) ELSE << >>,
     fact_check_results |->
         IF check_facts THEN VerifyAll(ExtractFacts(content)) ELSE << >>]

(***************************************************************************)
(* PlagiarismChecker: recommendations                                      *)
(***************************************************************************)

\* The thresholds of get_recommendations, in fortieths: 0.8, 0.6, 0.3, 0.2.
HighRisk == (8 * PlagUnit) \div 10
ModerateRisk == (6 * PlagUnit) \div 10
SomeRisk == (3 * PlagUnit) \div 10
LowRisk == (2 * PlagUnit) \div 10

\* A plagiarism recommendation whose thresholds include their bound.
ScoreMessageInclusive(plagiarism_score) ==
    IF plagiarism_score >= HighRisk
    THEN "High plagiarism risk detected. Consider rewriting the content completely."
    ELSE IF plagiarism_score >= ModerateRisk
    THEN "Moderate plagiarism risk. Review and rewrite suspicious sections."
    ELSE IF plagiarism_score >= SomeRisk
    THEN "Some plagiarism detected. Consider paraphrasing certain sections."
    ELSE "Content appears to be original. Good job!"

\* The plagiarism recommendation.
ScoreMessage(plagiarism_score) ==
    IF plagiarism_score > HighRisk
    THEN "High plagiarism risk detected. Consider rewriting the content completely."
    ELSE IF plagiarism_score > ModerateRisk
    THEN "Moderate plagiarism risk. Review and rewrite suspicious sections."
    ELSE IF plagiarism_score > SomeRisk
    THEN "Some plagiarism detected. Consider paraphrasing certain sections."
    ELSE "Content appears to be original. Good job!"

\* [r for r in fact_check_results if r.get("status") == status], counted.
WithStatus(fact_check_results, status) ==
    Cardinality({ i \in 1..Len(fact_check_results) :
                    fact_check_results[i].status = status })

\* The message of a bucket of n facts: none for an empty bucket.
BucketMessage(n, before, after) ==
    IF n > 0 THEN << "Found " \o ToString(n) \o before \o after >> ELSE << >>

\* The fact recommendations: false, disputed and unverified claims, in that
\* order.
FactMessages(fact_check_results) ==
    BucketMessage(WithStatus(fact_check_results, "false"),
                  " potentially false claims.", " Please verify and correct.")
    \o BucketMessage(WithStatus(fact_check_results, "disputed"),
                     " disputed claims.", " Consider providing additional context.")
    \o BucketMessage(WithStatus(fact_check_results, "unverified"),
                     " unverified claims.",
                     " Consider adding sources or removing claims.")

\* The general recommendation.
GeneralMessages(plagiarism_score, fact_check_results) ==
    IF plagiarism_score < LowRisk /\ fact_check_results = << >>
    THEN << "Content appears to be original and factual. Ready for publication!" >>
    ELSE << >>

\* get_recommendations
GetRecommendations(plagiarism_score, fact_check_results) ==
    << ScoreMessage(plagiarism_score) >>
    \o FactMessages(fact_check_results)
    \o GeneralMessages(plagiarism_score, fact_check_results)

(***************************************************************************)
(* PlagiarismChecker: the calls                                            *)
(***************************************************************************)

\* The texts check is called with: texts without words, texts with repeated
\* sentences, texts in each band of the four heuristics, texts with facts of
\* every pattern, with more than ten facts and with a fact that does not
\* encode.
PlagTexts ==
    { "",
      "A. B. A.",
      "A. B. A",
      " \n\t ",
      "However, it is essential to go. The key benefits include this approach provides. x. X",
      "In 2020 sales rose 15%. According to a study it cost $5. Research indicates growth",
      "1111 2222 3333 4444 5555 6666. 7%. 8%. 9%. $1. $2",
      "Found ^ in 1999. It is known that x^y",
      "a. b. c. d. e. f. g. h. i. j. however the importance of k. a",
      "a a. b b. c c. d d. e e. f f. g g. h h. i i. j j. k k. l l. m m. n n. o o. p p. q q. r r. s s. t t. u u. v v. w w. therefore the importance of y. a a",
      "There are several advantages here\n\nb\n\nc\n\nd\n\ne",
      "It is important to consider the cost of it moreover\n\na a\n\nb b\n\nc c\n\nd d\n\ne e\n\nf f\n\ng g\n\nh h\n\ni i",
      "STUDIES SHOW That. a. A . studies show more. Proved",
      "12345678% and $12x. 99%5" }

\* The facts _verify_fact is called with directly.
FactStrings == { "5555", "15%", "1999", "2020", "the sky is blue", "x" \o Surrogate \o "y" }

\* The plagiarism scores get_recommendations is called with, in fortieths:
\* each threshold, the values next to it and the ends of [0, 1].
RecScores == { 0, LowRisk - 1, LowRisk, SomeRisk, SomeRisk + 1, ModerateRisk,
               ModerateRisk + 1, HighRisk, HighRisk + 1, PlagUnit }

\* The fact-result lists get_recommendations is called with: the results of
\* up to MaxRecFacts facts.
MaxRecFacts == 2
FactLists ==
    UNION { [1..n -> FactStrings] : n \in 0..MaxRecFacts }

\* The calls of one behaviour.
MaxPlagCalls == 3

PlagInit ==
    /\ plag_content \in PlagTexts
    /\ plag_calls = 0
    /\ plag_ret = NoPlagRet
    /\ plag_verified = {}
    /\ GenIdle
    /\ SeoIdle
    /\ StyIdle
    /\ ConcIdle
    /\ VarIdle

\* What a call leaves behind: its result, and the results of the
\* _verify_fact calls it made.
PlagReturns(ret, results) ==
    /\ plag_ret' = ret
    /\ plag_verified' = plag_verified \cup { results[i] : i \in 1..Len(results) }
    /\ plag_calls' = plag_calls + 1
    /\ UNCHANGED plag_content
    /\ UNCHANGED plagRest

\* check(content, check_facts) is called on the text.
RunCheck ==
    /\ plag_calls < MaxPlagCalls
    /\ plag_ret.op # "recommend"
    /\ \E check_facts \in BOOLEAN :
           PlagReturns(Check(plag_content, check_facts),
                       Check(plag_content, check_facts).fact_check_results)

\* _verify_fact(fact) is called.
RunVerifyFact ==
    /\ plag_calls < MaxPlagCalls
    /\ plag_ret.op # "recommend"
    /\ \E fact \in FactStrings :
           PlagReturns([op |-> "verify", result |-> VerifyFact(fact)],
                       << VerifyFact(fact) >>)

\* The result of get_recommendations for a score and a fact-result list.
Recommended(plagiarism_score, fact_check_results) ==
    [op |-> "recommend", plagiarism_score |-> plagiarism_score,
     fact_check_results |-> fact_check_results,
     recommendations |-> GetRecommendations(plagiarism_score, fact_check_results)]

\* get_recommendations is called with a score and a fact-result list of its
\* caller's choice.
RunRecommendations ==
    /\ plag_ret.op = "none"
    /\ \E plagiarism_score \in RecScores, facts \in FactLists :
           PlagReturns(Recommended(plagiarism_score, VerifyAll(facts)), << >>)

\* get_recommendations is called with what check returned.
RunRecommendChecked ==
    /\ plag_ret.op = "check"
    /\ PlagReturns(Recommended(plag_ret.plagiarism.score, plag_ret.fact_check_results),
                   << >>)

PlagNext ==
    \/ RunCheck
    \/ RunVerifyFact
    \/ RunRecommendations
    \/ RunRecommendChecked

PlagSpec == PlagInit /\ [][PlagNext]_vars

(***************************************************************************)
(* StyleRefiner: the steps of refine                                       *)
(***************************************************************************)

\* sep.join(pieces)
RECURSIVE JoinFrom(_, _, _)
JoinFrom(pieces, sep, i) ==
    IF i > Len(pieces) THEN ""
    ELSE IF i = Len(pieces) THEN pieces[i]
    ELSE pieces[i] \o sep \o JoinFrom(pieces, sep, i + 1)

Join(pieces, sep) == JoinFrom(pieces, sep, 1)

\* \w of the regular expressions.
IsWordChar(c) == IsCased(c) \/ IsDigit(c) \/ c = "_"

\* \bold\b with re.IGNORECASE matches at position i of s; old is made of
\* letters, so \b asks for no word character before and after it.
WordAtPosition(s, i, old) ==
    /\ LowerStartsAt(s, i, old)
    /\ ~IsWordChar(Char(s, i - 1))
    /\ ~IsWordChar(Char(s, i + Len(old)))

\* re.sub(rf'\b{old}\b', new, s, flags=re.IGNORECASE) from position `from`
\* on; `at` is the first match from there, 0 if none.
RECURSIVE WordSubFrom(_, _, _, _)
WordSubAfter(s, old, new, from, at) ==
    IF at = 0 THEN SubSeq(s, from, Len(s))
    ELSE SubSeq(s, from, at - 1) \o new \o WordSubFrom(s, old, new, at + Len(old))

WordSubFrom(s, old, new, from) ==
    WordSubAfter(s, old, new, from,
                 MinOrZero({ i \in from..(Len(s) - Len(old) + 1) : WordAtPosition(s, i, old) }))

\* A substitution of the first match only.
WordSubAt(s, old, new, at) ==
    IF at = 0 THEN s
    ELSE SubSeq(s, 1, at - 1) \o new \o SubSeq(s, at + Len(old), Len(s))

WordSubFirst(s, old, new) ==
    WordSubAt(s, old, new,
              MinOrZero({ i \in 1..(Len(s) - Len(old) + 1) : WordAtPosition(s, i, old) }))

WordSub(s, old, new) == WordSubFrom(s, old, new, 1)

\* self.style_rules[style]["sentence_structure"]
SentenceStructure(style) ==
    CASE style = "professional" -> "complex"
      [] style = "casual" -> "simple"
      [] style = "humorous" -> "varied"
      [] style = "academic" -> "complex"

StyleNames == { "professional", "casual", "humorous", "academic" }

\* An argument that is no string but a list: `x in dict` raises TypeError
\* for it.
Unhashable == "[]"

\* if style not in self.style_rules: style = "casual"
ResolveStyle(style) == IF style \in StyleNames THEN style ELSE "casual"

\* _get_word_replacements
WordReplacements(style) ==
    CASE style = "professional" ->
             << <<"use", "utilize">>, <<"make", "implement">>, <<"help", "facilitate">>,
                <<"improve", "optimize">>, <<"start", "initiate">>, <<"end", "conclude">> >>
      [] style = "casual" ->
             << <<"utilize", "use">>, <<"implement", "make">>, <<"facilitate", "help">>,
                <<"optimize", "improve">>, <<"initiate", "start">>, <<"conclude", "end">> >>
      [] style = "humorous" ->
             << <<"good", "amazing">>, <<"great", "incredible">>,
                <<"excellent", "mind-blowing">>, <<"bad", "hilarious">>,
                <<"problem", "adventure">>, <<"issue", "challenge">> >>
      [] style = "academic" ->
             << <<"also", "furthermore">>, <<"but", "however">>, <<"so", "consequently">>,
                <<"and", "moreover">>, <<"though", "nevertheless">>,
                <<"because", "due to the fact that">> >>
      [] OTHER -> << >>

\* The text and the change log so far, with a record of every step taken:
\* its name, the text it got, the text it left and the entries it appended.
StartRefine(content) == [content |-> content, changes |-> << >>, log |-> << >>]

Step(acc, name, after, entries) ==
    [content |-> after,
     changes |-> acc.changes \o entries,
     log |-> Append(acc.log, [step |-> name, before |-> acc.content,
                              after |-> after, entries |-> entries])]

\* One pass of the replacement loop: the test is on the lowered text, the
\* substitution on whole words.
ReplaceWord(acc, pair, entry) ==
    IF ContainsLower(acc.content, pair[1])
    THEN Step(acc, "word", WordSub(acc.content, pair[1], pair[2]), << entry >>)
    ELSE Step(acc, "word", acc.content, << >>)

\* The replacement loop of _apply_style_transformations from pair i on.
RECURSIVE ReplaceWordsFrom(_, _, _)
ReplaceWordsFrom(acc, style, i) ==
    IF i > Len(WordReplacements(style)) THEN acc
    ELSE ReplaceWordsFrom(
             ReplaceWord(acc, WordReplacements(style)[i],
                         "Replaced '" \o WordReplacements(style)[i][1] \o "' with '"
                             \o WordReplacements(style)[i][2] \o "' for " \o style \o " style"),
             style, i + 1)

\* The pieces a sentence contributes to _simplify_sentences: its parts at
\* ", " when it has more than 20 words and more than one part.
SimplifiedPieces(sentence) ==
    IF WordCount(sentence) > 20 /\ Len(Split(sentence, ", ")) > 1
    THEN Split(sentence, ", ")
    ELSE << sentence >>

RECURSIVE SimplifyFrom(_, _)
SimplifyFrom(sentences, i) ==
    IF i > Len(sentences) THEN << >>
    ELSE SimplifiedPieces(sentences[i]) \o SimplifyFrom(sentences, i + 1)

\* _simplify_sentences
SimplifySentences(content) == Join(SimplifyFrom(Split(content, ". "), 1), ". ")

\* The loop of _complexify_sentences from index i on: a sentence of fewer
\* than 10 words that is not the last takes the next one, which is blanked
\* in the list the loop runs over.
RECURSIVE ComplexifyFrom(_, _, _)
ComplexifyFrom(sentences, i, complex_sentences) ==
    IF i > Len(sentences) THEN complex_sentences
    ELSE IF WordCount(sentences[i]) < 10 /\ i < Len(sentences)
    THEN ComplexifyFrom([sentences EXCEPT ![i + 1] = ""], i + 1,
                        Append(complex_sentences,
                               sentences[i] \o ", and " \o Lower(sentences[i + 1])))
    ELSE ComplexifyFrom(sentences, i + 1, Append(complex_sentences, sentences[i]))

NonEmpty(s) == s # ""

\* _complexify_sentences
ComplexifySentences(content) ==
    Join(SelectSeq(ComplexifyFrom(Split(content, ". "), 1, << >>), NonEmpty), ". ")

\* The structure step of _apply_style_transformations.
AdjustStructure(acc, structure) ==
    IF structure = "simple"
    THEN Step(acc, "structure", SimplifySentences(acc.content),
              << "Simplified sentence structure for better readability" >>)
    ELSE IF structure = "complex"
    THEN Step(acc, "structure", ComplexifySentences(acc.content),
              << "Enhanced sentence complexity for professional tone" >>)
    ELSE Step(acc, "structure", acc.content, << >>)

\* markers[style][0] and markers[style][-1]
OpeningMarker(style) ==
    CASE style = "professional" -> "It is important to note that"
      [] style = "casual" -> "You know what?"
      [] style = "humorous" -> "Here's the funny thing:"
      [] style = "academic" -> "It is worth noting that"

ClosingMarker(style) ==
    CASE style = "professional" -> "Based on the analysis,"
      [] style = "casual" -> "So there you have it!"
      [] style = "humorous" -> "Drumroll please..."
      [] style = "academic" -> "The implications of this are significant."

\* The two assignments of _adjust_tone_markers.
WithOpening(sentences, style) ==
    IF Len(sentences) > 2
    THEN [sentences EXCEPT ![2] = OpeningMarker(style) \o " " \o Lower(sentences[2])]
    ELSE sentences

WithClosing(sentences, style) ==
    IF Len(sentences) > 1
    THEN [sentences EXCEPT ![Len(sentences)] =
              ClosingMarker(style) \o " " \o sentences[Len(sentences)]]
    ELSE sentences

\* Tone markers put in only when the text has more than two sentences.
AdjustToneMarkersLong(content, style) ==
    IF Len(Split(content, ". ")) > 2
    THEN Join(WithClosing(WithOpening(Split(content, ". "), style), style), ". ")
    ELSE content

\* _adjust_tone_markers, for a style of the markers dict
AdjustToneMarkers(content, style) ==
    Join(WithClosing(WithOpening(Split(content, ". "), style), style), ". ")

\* The tone step of _apply_style_transformations: its entry is appended
\* whatever the markers did.
ToneStep(acc, style) ==
    Step(acc, "tone", AdjustToneMarkers(acc.content, style),
         << "Applied " \o style \o " tone markers" >>)

\* _apply_style_transformations for the resolved style
ApplyStyle(acc, style) ==
    ToneStep(AdjustStructure(ReplaceWordsFrom(acc, style, 1), SentenceStructure(style)),
             style)

\* self.length_rules[length]["max_sentences"]
MaxSentences(length) ==
    CASE length = "short" -> 3
      [] length = "medium" -> 6
      [] length = "long" -> 10

LengthNames == { "short", "medium", "long" }

\* if length not in self.length_rules: length = "medium"
ResolveLength(length) == IF length \in LengthNames THEN length ELSE "medium"

\* expansion_templates
ExpansionTemplates ==
    << "This aspect is particularly important to consider.",
       "It's worth exploring this topic further.",
       "Additional research supports these findings.",
       "This approach has proven effective in various contexts.",
       "Further analysis reveals interesting insights.",
       "This perspective offers valuable insights.",
       "Consider the implications of this approach.",
       "This method has demonstrated consistent results." >>

\* _expand_content: a template for each i in range(additional_sentences)
\* below the number of templates.
ExpandContent(content, additional_sentences) ==
    Join(Split(content, ". ")
             \o SubSeq(ExpansionTemplates, 1,
                       AtMost(additional_sentences, Len(ExpansionTemplates))),
         ". ")

\* _adjust_length for the resolved length, the sentences of the text and the
\* target: current_sentences < target_sentences * 0.7 is taken exactly.
\* An expansion of every text below the target.
AdjustLengthBelowTarget(acc, length, sentences, target_sentences) ==
    IF Len(sentences) > target_sentences
    THEN Step(acc, "length", Join(SubSeq(sentences, 1, target_sentences), ". "),
              << "Shortened content to " \o ToString(target_sentences) \o " sentences" >>)
    ELSE IF Len(sentences) < target_sentences
    THEN Step(acc, "length",
              ExpandContent(acc.content, target_sentences - Len(sentences)),
              << "Expanded content to meet " \o length \o " length requirements" >>)
    ELSE Step(acc, "length", acc.content, << >>)

AdjustLengthTo(acc, length, sentences, target_sentences) ==
    IF Len(sentences) > target_sentences
    THEN Step(acc, "length", Join(SubSeq(sentences, 1, target_sentences), ". "),
              << "Shortened content to " \o ToString(target_sentences) \o " sentences" >>)
    ELSE IF 10 * Len(sentences) < 7 * target_sentences
    THEN Step(acc, "length",
              ExpandContent(acc.content, target_sentences - Len(sentences)),
              << "Expanded content to meet " \o length \o " length requirements" >>)
    ELSE Step(acc, "length", acc.content, << >>)

AdjustLength(acc, length) ==
    AdjustLengthTo(acc, length, Split(acc.content, ". "), MaxSentences(length))

\* audience_adjustments; an audience that is no key has no pairs.
AudienceAdjustments(target_audience) ==
    CASE target_audience = "technical" ->
             << <<"simple", "straightforward">>, <<"easy", "efficient">>,
                <<"basic", "fundamental">> >>
      [] target_audience = "beginners" ->
             << <<"complex", "detailed">>, <<"advanced", "comprehensive">>,
                <<"sophisticated", "thorough">> >>
      [] target_audience = "experts" ->
             << <<"simple", "elementary">>, <<"basic", "fundamental">>,
                <<"easy", "straightforward">> >>
      [] OTHER -> << >>

\* One pass of the loop of _adjust_for_audience.
AdjustWord(acc, pair, entry) ==
    IF ContainsLower(acc.content, pair[1])
    THEN Step(acc, "audience", WordSub(acc.content, pair[1], pair[2]), << entry >>)
    ELSE Step(acc, "audience", acc.content, << >>)

\* _adjust_for_audience from pair i on.
RECURSIVE AdjustForAudienceFrom(_, _, _)
AdjustForAudienceFrom(acc, target_audience, i) ==
    IF i > Len(AudienceAdjustments(target_audience)) THEN acc
    ELSE AdjustForAudienceFrom(
             AdjustWord(acc, AudienceAdjustments(target_audience)[i],
                        "Adjusted vocabulary for " \o target_audience \o " audience"),
             target_audience, i + 1)

\* The text s[lo..hi] with every character replaced by what At gives for its
\* position.
RECURSIVE MapChars(_, _, _, _)
MapChars(At(_, _), s, lo, hi) ==
    IF lo > hi THEN ""
    ELSE IF lo = hi THEN At(s, lo)
    ELSE MapChars(At, s, lo, (lo + hi) \div 2) \o MapChars(At, s, (lo + hi) \div 2 + 1, hi)

\* re.sub(r'\s+', ' ', s): a run of whitespace leaves one space, at its
\* first position.
CollapseAt(s, i) ==
    IF ~IsSpace(Char(s, i)) THEN Char(s, i)
    ELSE IF IsSpace(Char(s, i - 1)) THEN ""
    ELSE " "

CollapseSpace(s) == MapChars(CollapseAt, s, 1, Len(s))

Punctuation == { ".", ",", "!", "?" }

\* re.sub(r'\s+([.,!?])', r'\1', s) on a text whose whitespace is single
\* spaces: a space before a punctuation mark goes.
FixAt(s, i) ==
    IF IsSpace(Char(s, i)) /\ Char(s, i + 1) \in Punctuation THEN "" ELSE Char(s, i)

FixPunctuation(s) == MapChars(FixAt, s, 1, Len(s))

\* sentence[0].upper() + sentence[1:]
Capitalize(sentence) == UpperChar(Char(sentence, 1)) \o SubSeq(sentence, 2, Len(sentence))

\* The non-empty pieces, capitalized.
CapitalizeAll(sentences) ==
    [ i \in 1..Len(sentences) |-> Capitalize(sentences[i]) ]

\* _polish_content
PolishContent(content) ==
    Join(CapitalizeAll(SelectSeq(Split(FixPunctuation(CollapseSpace(content)), ". "),
                                 NonEmpty)),
         ". ")

Polish(acc) == Step(acc, "polish", PolishContent(acc.content), << >>)

(***************************************************************************)
(* StyleRefiner: refine                                                    *)
(***************************************************************************)

\* str(e) of the TypeError that `x in dict` raises for a list.
UnhashableMessage == "unhashable type: 'list'"

\* A failure that returns the text and the entries of the steps that ran.
RefineFailedKeepsChanges(content, acc) ==
    [op |-> "refine", content |-> acc.content,
     changes |-> acc.changes \o << "Refinement failed: " \o UnhashableMessage >>,
     failed |-> TRUE, log |-> acc.log]

\* The except branch of refine: the original content and one entry. The log
\* keeps the steps that ran before the exception.
RefineFailed(content, acc) ==
    [op |-> "refine", content |-> content,
     changes |-> << "Refinement failed: " \o UnhashableMessage >>,
     failed |-> TRUE, log |-> acc.log]

\* return refined_content, changes
RefineDone(acc) ==
    [op |-> "refine", content |-> acc.content, changes |-> acc.changes,
     failed |-> FALSE, log |-> acc.log]

\* refine from _adjust_for_audience on, whose membership test raises for an
\* unhashable target_audience.
AfterLength(content, acc, target_audience) ==
    IF target_audience = Unhashable THEN RefineFailed(content, acc)
    ELSE RefineDone(Polish(AdjustForAudienceFrom(acc, target_audience, 1)))

\* refine from _adjust_length on, whose membership test raises for an
\* unhashable length.
AfterStyle(content, acc, length, target_audience) ==
    IF length = Unhashable THEN RefineFailed(content, acc)
    ELSE AfterLength(content, AdjustLength(acc, ResolveLength(length)), target_audience)

\* refine; the membership test of _apply_style_transformations raises for an
\* unhashable style.
Refine(content, style, length, target_audience) ==
    IF style = Unhashable THEN RefineFailed(content, StartRefine(content))
    ELSE AfterStyle(content, ApplyStyle(StartRefine(content), ResolveStyle(style)),
                    length, target_audience)

(***************************************************************************)
(* StyleRefiner: the state machine                                         *)
(***************************************************************************)

\* The texts refine is called with: the scenario of the specification,
\* texts without any word of the tables, a word of the tables inside a
\* longer word, texts of one, two, three and more sentences, more sentences
\* than every target, short sentences in a row, audience words, loose
\* whitespace, and the empty text.
StyTexts ==
    { "",
      "We use AI to help people.",
      "Hello world",
      "This is useful",
      "USE it. Use it, use it",
      "First one. Second one",
      "One a. Two B. Three c",
      "A. B. C. D",
      "a. b. c. d. e. f. g. h. i. j. k. l",
      "A simple and easy basic idea. It is complex but good",
      "hello  world , ok .  next\tone",
      "We utilize it. So we start. The end",
      "a b c d e f g h i j k l m n o p q r s t, u v, w. Short one",
      "a. b. c. d. e",
      "a. b. c. d. e. f. g" }

\* The values of style, length and target_audience: the keys, a string that
\* is no key, and a list.
StyStyles == StyleNames \cup { "formal", Unhashable }
StyLengths == LengthNames \cup { "tiny", Unhashable }
StyAudiences == { "general", "technical", "beginners", "experts", "kids", Unhashable }

StyInit ==
    /\ sty_content \in StyTexts
    /\ sty_style = ""
    /\ sty_length = ""
    /\ sty_audience = ""
    /\ sty_ret = NoStyRet
    /\ GenIdle
    /\ SeoIdle
    /\ PlagIdle
    /\ ConcIdle
    /\ VarIdle

\* A call of refine. The refiner keeps no state between calls, so a
\* behaviour holds one call.
RunRefine ==
    /\ sty_ret.op = "none"
    /\ \E style \in StyStyles, length \in StyLengths, target_audience \in StyAudiences :
          /\ sty_style' = style
          /\ sty_length' = length
          /\ sty_audience' = target_audience
          /\ sty_ret' = Refine(sty_content, style, length, target_audience)
    /\ UNCHANGED <<sty_content, styRest>>

StyNext == RunRefine

StySpec == StyInit /\ [][StyNext]_vars

(***************************************************************************)
(* generate_content as a function of the handles and the provider outcomes *)
(***************************************************************************)

\* The four handles of a ContentGenerator, in the order of DefaultOrder.
Handles == << ollama_client, openai_client, anthropic_client, google_client >>

\* The truth value of the handle of provider p among handles h.
ClientIn(h, p) ==
    CASE p = "ollama" -> h[1]
      [] p = "openai" -> h[2]
      [] p = "claude" -> h[3]
      [] p = "gemini" -> h[4]
      [] OTHER -> FALSE

\* The provider that stage s of generate_content invokes with handles h and
\* preferred model pm, "none" when the stage invokes nothing.
StageProvider(h, s, pm) ==
    IF s = "preferred"
    THEN IF pm # "auto" /\ pm \in Providers /\ ClientIn(h, pm) THEN pm ELSE "none"
    ELSE IF s \in Providers /\ ClientIn(h, s) THEN s
    ELSE "none"

\* What generate_content raises when a provider function lets an exception
\* through.
RaisedResult ==
    [content |-> NoContent, model_used |-> "", tokens_used |-> 0, status |-> "raised"]

\* generate_content from stage s on, with handles h, when the k-th and the
\* later provider calls end as outs says: a sequence of outcome and token
\* count.
RECURSIVE GenerateFrom(_, _, _, _, _, _, _)
GenerateAfterCall(h, s, p, pm, pr, ct, outs, k) ==
    IF k > Len(outs) THEN NoResult
    ELSE IF outs[k].outcome = "exception" /\ ~CatchesException(p) THEN RaisedResult
    ELSE IF ProviderResult(p, outs[k].outcome, outs[k].tokens).status = "success"
    THEN ProviderResult(p, outs[k].outcome, outs[k].tokens)
    ELSE GenerateFrom(h, NextStage(s), pm, pr, ct, outs, k + 1)

GenerateFrom(h, s, pm, pr, ct, outs, k) ==
    IF s = "fallback" THEN FallbackResult(pr, ct)
    ELSE IF StageProvider(h, s, pm) = "none"
    THEN GenerateFrom(h, NextStage(s), pm, pr, ct, outs, k)
    ELSE GenerateAfterCall(h, s, StageProvider(h, s, pm), pm, pr, ct, outs, k)

\* generate_content(prompt, content_type, preferred_model=pm)
GenerateContent(h, pm, pr, ct, outs) == GenerateFrom(h, "preferred", pm, pr, ct, outs, 1)

\* The providers generate_content calls, in order.
RECURSIVE CalledFrom(_, _, _, _, _)
CalledAfterCall(h, s, p, pm, outs, k) ==
    IF k > Len(outs) THEN << p >>
    ELSE IF outs[k].outcome = "exception" /\ ~CatchesException(p) THEN << p >>
    ELSE IF ProviderResult(p, outs[k].outcome, outs[k].tokens).status = "success"
    THEN << p >>
    ELSE << p >> \o CalledFrom(h, NextStage(s), pm, outs, k + 1)

CalledFrom(h, s, pm, outs, k) ==
    IF s = "fallback" THEN << >>
    ELSE IF StageProvider(h, s, pm) = "none"
    THEN CalledFrom(h, NextStage(s), pm, outs, k)
    ELSE CalledAfterCall(h, s, StageProvider(h, s, pm), pm, outs, k)

(***************************************************************************)
(* Concurrent invocations on the module-level instances                    *)
(***************************************************************************)

\* The rule tables the instances are built with.
InstanceRules ==
    [config |-> [ollama |-> "llama3.2:latest", openai |-> "gpt-3.5-turbo"],
     style_rules |-> [s \in StyleNames |-> SentenceStructure(s)],
     length_rules |-> [l \in LengthNames |-> MaxSentences(l)],
     seo_rules |-> [title_length |-> << TitleLengthMin, TitleLengthMax >>,
                    meta_description_length |-> << MetaLengthMin, MetaLengthMax >>,
                    content_length |-> << ContentLengthMin, ContentLengthMax >>],
     common_phrases |-> CommonPhrases]

\* The invocations in flight at once.
NumTasks == 2
Tasks == 1..NumTasks

\* The handles the generator was built with.
ConcHandles ==
    { << FALSE, FALSE, FALSE, FALSE >>, << TRUE, FALSE, TRUE, FALSE >>,
      << FALSE, TRUE, FALSE, TRUE >> }

\* The calls made: the entry point and its arguments.
ConcCalls ==
    { [kind |-> "generate", arg |-> << "claude", << >>, "blog_post" >>],
      [kind |-> "refine", arg |-> << "A. B. C", "professional", "short", "general" >>],
      [kind |-> "optimize", arg |-> << "Hello world. This sentence is long enough",
                                       << "ai" >>, "/post" >>],
      [kind |-> "check", arg |-> << "STUDIES SHOW That. a. A . studies show more. Proved", TRUE >>],
      [kind |-> "check", arg |-> << "A. B. A", FALSE >>] }

NoTaskResult == [op |-> "none"]

IdleTask ==
    [kind |-> "none", pc |-> "idle", awaiting |-> "none", arg |-> << >>,
     handles |-> << >>, outs |-> << >>, result |-> NoTaskResult, overlapped |-> FALSE]

\* Where an invocation starts.
FirstPc(kind) ==
    CASE kind = "generate" -> "preferred"
      [] kind = "check" -> "plagiarism"
      [] OTHER -> "run"

\* Another invocation is in progress.
Overlap(t) == \E u \in Tasks \ {t} : conc_tasks[u].pc \notin {"idle", "done"}

\* The frame of invocation t becomes rec; the others keep theirs.
Advance(t, rec) ==
    conc_tasks' = [conc_tasks EXCEPT
                      ![t] = [rec EXCEPT !.overlapped = rec.overlapped \/ Overlap(t)]]

\* A provider function that unsets the handle of a provider that failed.
HandlesAfterFailure(h, p, outcome) ==
    IF outcome = "ok" THEN h
    ELSE [ i \in 1..4 |-> IF DefaultOrder[i] = p THEN FALSE ELSE h[i] ]

\* The handles after provider function p returned: the provider functions
\* (lines 97-269) assign to no attribute of self.
HandlesAfterCall(h, p, outcome) == h

SetHandles(h) ==
    /\ ollama_client' = h[1]
    /\ openai_client' = h[2]
    /\ anthropic_client' = h[3]
    /\ google_client' = h[4]

concRest == << preferred_model, prompt, content_type, gpc, awaiting, result, calls,
               outcomes, seoVars, plagVars, styVars, varVars >>

ConcInit ==
    /\ \E h \in ConcHandles :
          /\ ollama_client = h[1]
          /\ openai_client = h[2]
          /\ anthropic_client = h[3]
          /\ google_client = h[4]
    /\ preferred_model = "auto"
    /\ prompt = << >>
    /\ content_type = "article"
    /\ gpc = "idle"
    /\ awaiting = "none"
    /\ result = NoResult
    /\ calls = << >>
    /\ outcomes = << >>
    /\ conc_tasks = [t \in Tasks |-> IdleTask]
    /\ conc_rules = InstanceRules
    /\ SeoIdle
    /\ PlagIdle
    /\ StyIdle
    /\ VarIdle

\* An endpoint calls an entry point; the frame notes the handles it finds.
StartTask(t, call) ==
    /\ conc_tasks[t].pc = "idle"
    /\ Advance(t, [IdleTask EXCEPT !.kind = call.kind, !.pc = FirstPc(call.kind),
                                   !.arg = call.arg, !.handles = Handles])
    /\ UNCHANGED << Handles, conc_rules, concRest >>

\* generate_content, lines 364-401: the block of the stage invokes its
\* provider function.
TaskInvoke(t) ==
    /\ conc_tasks[t].kind = "generate"
    /\ conc_tasks[t].pc \in {"preferred"} \cup Providers
    /\ conc_tasks[t].awaiting = "none"
    /\ StageProvider(Handles, conc_tasks[t].pc, conc_tasks[t].arg[1]) # "none"
    /\ Advance(t, [conc_tasks[t] EXCEPT
                       !.awaiting = StageProvider(Handles, conc_tasks[t].pc,
                                                  conc_tasks[t].arg[1])])
    /\ UNCHANGED << Handles, conc_rules, concRest >>

\* The block of the stage is skipped.
TaskSkip(t) ==
    /\ conc_tasks[t].kind = "generate"
    /\ conc_tasks[t].pc \in {"preferred"} \cup Providers
    /\ conc_tasks[t].awaiting = "none"
    /\ StageProvider(Handles, conc_tasks[t].pc, conc_tasks[t].arg[1]) = "none"
    /\ Advance(t, [conc_tasks[t] EXCEPT !.pc = NextStage(conc_tasks[t].pc)])
    /\ UNCHANGED << Handles, conc_rules, concRest >>

\* The frame after the awaited provider function returned r.
AfterProvider(task, out, r) ==
    IF r.status = "success"
    THEN [task EXCEPT !.awaiting = "none", !.outs = Append(task.outs, out),
                      !.result = r, !.pc = "done"]
    ELSE [task EXCEPT !.awaiting = "none", !.outs = Append(task.outs, out),
                      !.pc = NextStage(task.pc)]

\* The awaited provider function returns; a call that did not end well
\* reports no tokens.
TaskProviderReturns(t, outcome, tokens) ==
    /\ conc_tasks[t].awaiting # "none"
    /\ outcome # "ok" => tokens = 0
    /\ Advance(t, AfterProvider(conc_tasks[t], [outcome |-> outcome, tokens |-> tokens],
                                ProviderResult(conc_tasks[t].awaiting, outcome, tokens)))
    /\ SetHandles(HandlesAfterCall(Handles, conc_tasks[t].awaiting, outcome))
    /\ UNCHANGED << conc_rules, concRest >>

\* generate_content, lines 403-411.
TaskFallback(t) ==
    /\ conc_tasks[t].kind = "generate"
    /\ conc_tasks[t].pc = "fallback"
    /\ Advance(t, [conc_tasks[t] EXCEPT
                       !.result = FallbackResult(conc_tasks[t].arg[2], conc_tasks[t].arg[3]),
                       !.pc = "done"])
    /\ UNCHANGED << Handles, conc_rules, concRest >>

\* refine has no await: it runs from call to return in one piece.
TaskRefine(t) ==
    /\ conc_tasks[t].kind = "refine"
    /\ conc_tasks[t].pc = "run"
    /\ Advance(t, [conc_tasks[t] EXCEPT
                       !.result = Refine(conc_tasks[t].arg[1], conc_tasks[t].arg[2],
                                         conc_tasks[t].arg[3], conc_tasks[t].arg[4]),
                       !.pc = "done"])
    /\ UNCHANGED << Handles, conc_rules, concRest >>

\* optimize has no await either.
TaskOptimize(t) ==
    /\ conc_tasks[t].kind = "optimize"
    /\ conc_tasks[t].pc = "run"
    /\ Advance(t, [conc_tasks[t] EXCEPT
                       !.result = Optimize(conc_tasks[t].arg[1], conc_tasks[t].arg[2],
                                           conc_tasks[t].arg[3]),
                       !.pc = "done"])
    /\ UNCHANGED << Handles, conc_rules, concRest >>

\* check, line 62: await self._check_plagiarism(content); the facts are
\* extracted when the awaits of the plagiarism heuristics are over.
TaskCheckPlagiarism(t) ==
    /\ conc_tasks[t].kind = "check"
    /\ conc_tasks[t].pc = "plagiarism"
    /\ Advance(t, [conc_tasks[t] EXCEPT
                       !.result = [op |-> "check", check_facts |-> conc_tasks[t].arg[2],
                                   plagiarism |-> CheckPlagiarism(conc_tasks[t].arg[1]),
                                   extracted |-> IF conc_tasks[t].arg[2]
                                                 THEN ExtractFacts(conc_tasks[t].arg[1])
                                                 ELSE << >>,
                                   fact_check_results |-> << >>],
                       !.pc = IF conc_tasks[t].arg[2] THEN "facts" ELSE "done"])
    /\ UNCHANGED << Handles, conc_rules, concRest >>

\* _check_facts, lines 270-275: one fact is verified after its sleep.
TaskVerifyFact(t) ==
    /\ conc_tasks[t].kind = "check"
    /\ conc_tasks[t].pc = "facts"
    /\ Len(conc_tasks[t].result.fact_check_results) < Len(conc_tasks[t].result.extracted)
    /\ Advance(t, [conc_tasks[t] EXCEPT
                       !.result.fact_check_results =
                           Append(@, VerifyFact(conc_tasks[t].result.extracted[Len(@) + 1]))])
    /\ UNCHANGED << Handles, conc_rules, concRest >>

\* check returns once every fact has its result.
TaskCheckReturns(t) ==
    /\ conc_tasks[t].kind = "check"
    /\ conc_tasks[t].pc = "facts"
    /\ Len(conc_tasks[t].result.fact_check_results) = Len(conc_tasks[t].result.extracted)
    /\ Advance(t, [conc_tasks[t] EXCEPT !.pc = "done"])
    /\ UNCHANGED << Handles, conc_rules, concRest >>

ConcNext ==
    \/ \E t \in Tasks, call \in ConcCalls : StartTask(t, call)
    \/ \E t \in Tasks : TaskInvoke(t)
    \/ \E t \in Tasks : TaskSkip(t)
    \/ \E t \in Tasks, o \in Outcomes, n \in 0..MaxTokens : TaskProviderReturns(t, o, n)
    \/ \E t \in Tasks : TaskFallback(t)
    \/ \E t \in Tasks : TaskRefine(t)
    \/ \E t \in Tasks : TaskOptimize(t)
    \/ \E t \in Tasks : TaskCheckPlagiarism(t)
    \/ \E t \in Tasks : TaskVerifyFact(t)
    \/ \E t \in Tasks : TaskCheckReturns(t)

ConcSpec == ConcInit /\ [][ConcNext]_vars

(***************************************************************************)
(* ContentGenerator.generate_multiple_variants                             *)
(***************************************************************************)

\* models[:count]: the default list cut to the default count of 3, shorter
\* lists, a list with a name the generator does not know.
VariantModels ==
    { << "ollama", "openai", "claude" >>, << "claude", "gemini" >>,
      << "gemini", "ollama", "openai", "claude" >>, << "openai" >>, << "mistral", "ollama" >> }

\* generate_content makes at most five provider calls: the preferred block
\* and the four default blocks.
MaxProviderCalls == 5

\* How the provider calls of one generate_content call end.
OutcomeLists ==
    { [ i \in 1..MaxProviderCalls |->
          [outcome |-> f[i], tokens |-> IF f[i] = "ok" THEN MaxTokens ELSE 0] ] :
      f \in [1..MaxProviderCalls -> Outcomes] }

\* One pass of the loop for the given model: the variant generate_content
\* returns and the providers it called; a call that raises appends nothing.
VariantEntry(model, outs) ==
    [model |-> model,
     variant |-> GenerateContent(Handles, model, << >>, "variant", outs),
     called |-> CalledFrom(Handles, "preferred", model, outs, 1)]

IsReturned(entry) == entry.variant.status # "raised"

\* The "variants" list of the returned dict.
ReturnedVariants(entries) == SelectSeq(entries, IsReturned)

VarInit ==
    /\ ollama_client \in BOOLEAN
    /\ openai_client \in BOOLEAN
    /\ anthropic_client \in BOOLEAN
    /\ google_client \in BOOLEAN
    /\ preferred_model = "auto"
    /\ prompt = << >>
    /\ content_type = "article"
    /\ gpc = "idle"
    /\ awaiting = "none"
    /\ result = NoResult
    /\ calls = << >>
    /\ outcomes = << >>
    /\ var_models = << >>
    /\ var_pc = "idle"
    /\ var_variants = << >>
    /\ SeoIdle
    /\ PlagIdle
    /\ StyIdle
    /\ ConcIdle

varRest == << genVars, seoVars, plagVars, styVars, concVars >>

\* generate_multiple_variants is called.
CallVariants(models) ==
    /\ var_pc = "idle"
    /\ var_models' = models
    /\ var_pc' = "loop"
    /\ var_variants' = << >>
    /\ UNCHANGED varRest

\* Lines 420-430: the next model of the list is passed to generate_content
\* as preferred_model.
GenerateVariant(outs) ==
    /\ var_pc = "loop"
    /\ Len(var_variants) < Len(var_models)
    /\ var_variants' = Append(var_variants,
                              VariantEntry(var_models[Len(var_variants) + 1], outs))
    /\ UNCHANGED << var_models, var_pc, varRest >>

\* Lines 432-436.
ReturnVariants ==
    /\ var_pc = "loop"
    /\ Len(var_variants) = Len(var_models)
    /\ var_pc' = "returned"
    /\ UNCHANGED << var_models, var_variants, varRest >>

VarNext ==
    \/ \E models \in VariantModels : CallVariants(models)
    \/ \E outs \in OutcomeLists : GenerateVariant(outs)
    \/ ReturnVariants

VarSpec == VarInit /\ [][VarNext]_vars

(***************************************************************************)
(* Claims about generate_content                                           *)
(***************************************************************************)

\* Whether self.x_client of provider p is set, read from the instance.
IsSet(p) ==
    \/ p = "ollama" /\ ollama_client
    \/ p = "openai" /\ openai_client
    \/ p = "claude" /\ anthropic_client
    \/ p = "gemini" /\ google_client

\* The providers whose client is set, in the default order.
AvailableInOrder == SelectSeq(DefaultOrder, IsSet)

IsPrefix(s, t) == Len(s) <= Len(t) /\ SubSeq(t, 1, Len(s)) = s

\* Provider p was invoked in this call and none of its invocations succeeded.
ProviderFailed(p) ==
    /\ \E i \in 1..Len(outcomes) : calls[i] = p
    /\ \A i \in 1..Len(outcomes) : calls[i] = p => outcomes[i] # "ok"

\* The invocations cs with their outcomes os are a run of the default order:
\* the set providers in order, every invocation but the last one failed, and
\* the result r is the last one's if it succeeded, the fallback (after every
\* set provider was invoked) if not.
DefaultRun(cs, os, r) ==
    /\ Len(os) = Len(cs)
    /\ IsPrefix(cs, AvailableInOrder)
    /\ \A i \in 1..(Len(cs) - 1) : os[i] # "ok"
    /\ IF cs # <<>> /\ os[Len(cs)] = "ok"
       THEN /\ r.status = "success"
            /\ r.model_used = ModelUsed(cs[Len(cs)], TRUE)
            /\ r.content.kind = "generated"
       ELSE /\ cs = AvailableInOrder
            /\ r = FallbackResult(prompt, content_type)

\* C1: generate_content never raises and returns status "success"; its
\* result is the templated fallback (model_used "fallback", tokens_used 0)
\* exactly when every provider whose client is set was invoked without
\* success, which includes the case of no client being set.
C1_AlwaysSuccessFallbackIffAllFail ==
    /\ gpc # "raised"
    /\ gpc = "done" =>
          /\ result.status = "success"
          /\ (result.model_used = "fallback") <=>
                (\A p \in Providers : IsSet(p) => ProviderFailed(p))
          /\ result.model_used = "fallback" =>
                /\ result.tokens_used = 0
                /\ result.content = GenerateFallbackContent(prompt, content_type)
                /\ result.content.kind = "template"
          /\ result.model_used # "fallback" =>
                /\ outcomes[Len(outcomes)] = "ok"
                /\ result.content.kind = "generated"

\* A call whose providers all failed, one of them by an exception, returned
\* the fallback.
C1_Witness ==
    /\ gpc = "done"
    /\ result.model_used = "fallback"
    /\ Len(calls) >= 2
    /\ \E i \in 1..Len(outcomes) : outcomes[i] = "exception"

\* C2: with a preferred provider that is unknown or whose client is not set,
\* the call runs as with no preference: the result is that of the first set
\* provider of the default order that succeeds, and the fallback is returned
\* only after every set provider failed.
C2_UnusablePreferredActsAsAuto ==
    (/\ gpc = "done"
     /\ preferred_model # "auto"
     /\ ~IsSet(preferred_model))
        => DefaultRun(calls, outcomes, result)

\* The preferred provider "ollama" has no client, and the metered provider
\* openai answered.
C2_Witness ==
    /\ gpc = "done"
    /\ preferred_model = "ollama"
    /\ ~ollama_client
    /\ calls = <<"openai">>
    /\ result.model_used = "gpt-3.5-turbo"

\* C3: a preferred provider whose client is set is the first one invoked; if
\* that invocation succeeds its result is returned and nothing else is
\* invoked; if it fails the call goes on with the default order.
C3_PreferredFirst ==
    (preferred_model # "auto" /\ IsSet(preferred_model)) =>
        /\ calls # <<>> => calls[1] = preferred_model
        /\ (outcomes # <<>> /\ outcomes[1] = "ok") =>
              /\ Len(calls) = 1
              /\ gpc = "done"
              /\ result = ProviderResult(preferred_model, "ok", result.tokens_used)
        /\ gpc = "done" =>
              /\ calls # <<>>
              /\ outcomes[1] # "ok" =>
                    DefaultRun(Tail(calls), Tail(outcomes), result)

\* The preferred provider failed and a provider of the default order
\* answered after it.
C3_Witness ==
    /\ gpc = "done"
    /\ preferred_model = "claude"
    /\ calls = <<"claude", "ollama", "openai">>
    /\ outcomes = <<"bad_response", "exception", "ok">>

\* C4: within one call no provider is invoked twice.
C4_EachProviderAtMostOnce ==
    \A i, j \in 1..Len(calls) : i # j => calls[i] # calls[j]

\* C5: with preferred_model "auto" the invocations are the set providers in
\* the order ollama, openai, claude, gemini, cut after the first success:
\* nothing is invoked after a success, a failure does not stop the chain,
\* and a provider without client is never invoked.
C5_AutoOrder ==
    preferred_model = "auto" =>
        /\ IsPrefix(calls, AvailableInOrder)
        /\ \A i \in 1..Len(outcomes) :
              outcomes[i] = "ok" => (i = Len(calls) /\ gpc = "done")
        /\ gpc = "done" => DefaultRun(calls, outcomes, result)
        /\ gpc \in {"fallback"} => calls = AvailableInOrder

\* All four clients set: three failures, then gemini answers.
C5_Witness ==
    /\ gpc = "done"
    /\ preferred_model = "auto"
    /\ calls = <<"ollama", "openai", "claude", "gemini">>
    /\ outcomes = <<"exception", "bad_response", "exception", "ok">>

\* C6: every call of generate_content returns: a provider that stays silent
\* is cut off by its timeout and the chain goes on.
C6_AlwaysReturns == (gpc = "preferred") ~> (gpc = "done")

(***************************************************************************)
(* SEOOptimizer: the properties                                            *)
(***************************************************************************)

\* The keywords of the list, as the keys of the density dict.
KeywordSet == { seo_keywords[i] : i \in 1..Len(seo_keywords) }

\* The six component scores of a score record.
Components(sc) == <<sc.title, sc.density, sc.structure, sc.length, sc.meta, sc.links>>

\* 20*title + 25*density + 20*structure + 15*length + 10*meta + 10*links
WeightedSum(sc) ==
    TitleWeight * sc.title + DensityWeight * sc.density
    + StructureWeight * sc.structure + LengthWeight * sc.length
    + MetaWeight * sc.meta + LinksWeight * sc.links

\* C7: on a text with zero words, _calculate_keyword_density returns an
\* entry with count 0 and density 0 for every keyword of the list, whatever
\* the list, and _calculate_seo_score returns a value; neither raises a
\* division by zero on a text with zero words or on an empty keyword list.
C7_ZeroWordsNoDivision ==
    (WordCount(seo_content) = 0 \/ seo_keywords = <<>>) =>
        /\ seo_ret.op = "density" =>
              /\ ~seo_ret.raised
              /\ DOMAIN seo_ret.keyword_density = KeywordSet
              /\ WordCount(seo_content) = 0 =>
                    \A k \in KeywordSet :
                        /\ seo_ret.keyword_density[k].count = 0
                        /\ seo_ret.keyword_density[k].density = 0
        /\ seo_ret.op = "score" =>
              /\ ~seo_ret.seo_score.raised
              /\ seo_ret.seo_score.total \in 0..(MaxScore * ScoreUnit)

\* The density of two keywords was asked for a text of whitespace only.
C7_Witness ==
    /\ seo_ret.op = "density"
    /\ seo_content # ""
    /\ WordCount(seo_content) = 0
    /\ Cardinality(KeywordSet) = 2

\* C8: the second of two runs of optimize, on the output of the first with
\* the same keywords and target URL, inserts no title, no subheading and no
\* meta description.
C8_SecondRunInsertsNoStructure ==
    seo_runs = 2 => ~seo_log.title /\ ~seo_log.heading /\ ~seo_log.meta

\* C9: the second of two runs of optimize, on the output of the first with
\* the same keywords and target URL, adds no keyword sentence, no summary
\* section and no "Related Content" section.
C9_SecondRunAddsNothing ==
    seo_runs = 2 =>
        /\ seo_log.keyword_sentences = 0
        /\ seo_log.summary = 0
        /\ seo_log.links = 0

\* C10: each of the six component scores lies in [0,1] and the score is
\* 20*title + 25*density + 20*structure + 15*length + 10*meta + 10*links,
\* which lies in [0,100]; this holds for the score _calculate_seo_score
\* returns and for the one optimize returns.
C10_ScoreIsWeightedSum ==
    seo_ret.op \in {"score", "optimize"} =>
        /\ \A i \in 1..6 : Components(seo_ret.seo_score)[i] \in 0..ScoreUnit
        /\ seo_ret.seo_score.total = WeightedSum(seo_ret.seo_score)
        /\ seo_ret.seo_score.total \in 0..(MaxScore * ScoreUnit)

\* A text was scored in which all six components count, three of them in
\* full and the structure in part.
C10_Witness ==
    /\ seo_ret.op = "score"
    /\ \A i \in 1..6 : Components(seo_ret.seo_score)[i] > 0
    /\ seo_ret.seo_score.title = ScoreUnit
    /\ seo_ret.seo_score.structure < ScoreUnit
    /\ seo_ret.seo_score.total = WeightedSum(seo_ret.seo_score)

\* A text without title, heading, meta description, link and keyword, of
\* fewer than 300 words.
BareShortText(content, keywords) ==
    /\ ~FindTitle(content).found
    /\ \A tag \in {"<h1", "<h2", "<h3"} : ~HasTag(content, tag)
    /\ ~HasMarkdownH2(content)
    /\ ~HasMetaDescription(content)
    /\ LinkCountFrom(content, 1) = 0
    /\ \A i \in 1..Len(keywords) : ~ContainsLower(content, Lower(keywords[i]))
    /\ WordCount(content) < ContentLengthMin

\* C11: the score of a text without title, heading, meta description, link
\* and keyword, of fewer than 300 words, has title, density, structure, meta
\* and links 0 and length 0.3, and is 4.5 in total.
C11_BareShortTextScores ==
    (seo_ret.op = "score" /\ BareShortText(seo_content, seo_keywords)) =>
        /\ seo_ret.seo_score.title = 0
        /\ seo_ret.seo_score.density = 0
        /\ seo_ret.seo_score.structure = 0
        /\ 10 * seo_ret.seo_score.length = 3 * ScoreUnit
        /\ seo_ret.seo_score.meta = 0
        /\ seo_ret.seo_score.links = 0
        /\ 10 * seo_ret.seo_score.total = 45 * ScoreUnit

\* The empty text was scored for the keywords ["ai"].
C11_Witness ==
    /\ seo_ret.op = "score"
    /\ seo_content = ""
    /\ seo_keywords = <<"ai">>
    /\ BareShortText(seo_content, seo_keywords)

\* A text of several words that names no keyword was scored.
C11_WitnessWords ==
    /\ seo_ret.op = "score"
    /\ WordCount(seo_content) > 5
    /\ seo_keywords # <<>>
    /\ BareShortText(seo_content, seo_keywords)

(***************************************************************************)
(* PlagiarismChecker: the properties                                       *)
(***************************************************************************)

\* The sum of the four sub-scores of a plagiarism record, in tenths.
SubScoreSum(pl) == pl.common + pl.exact + pl.similar + pl.copied

\* C12: a call check(text, check_facts=False) returns an empty fact list and
\* the mean of the four plagiarism sub-scores, and extracts and verifies no
\* fact: the results _verify_fact has returned are the same after the call.
C12_NoFactsUnlessAsked ==
    [][ (plag_calls' = plag_calls + 1 /\ plag_ret'.op = "check"
            /\ ~plag_ret'.check_facts) =>
          /\ plag_ret'.fact_check_results = << >>
          /\ plag_ret'.extracted = << >>
          /\ plag_verified' = plag_verified
          /\ 4 * SubScoreUnit * plag_ret'.plagiarism.score
                 = PlagUnit * SubScoreSum(plag_ret'.plagiarism) ]_vars

\* A text that holds facts and repeats a sentence was checked without fact
\* checking.
C12_Witness ==
    /\ plag_ret.op = "check"
    /\ ~plag_ret.check_facts
    /\ ExtractFacts(plag_content) # << >>
    /\ plag_ret.plagiarism.score > 0
    /\ plag_ret.fact_check_results = << >>

\* The four bucket/confidence pairs, the confidence in tenths.
FourBuckets ==
    { <<"verified", 9>>, <<"disputed", 7>>, <<"unverified", 3>>, <<"false", 8>> }

\* Every fact has one result among all the results returned so far.
OneResultPerFact ==
    \A r1 \in plag_verified : \A r2 \in plag_verified : r1.fact = r2.fact => r1 = r2

WithoutFinalPeriod(s) ==
    IF Len(s) > 0 /\ Char(s, Len(s)) = "." THEN SubSeq(s, 1, Len(s) - 1) ELSE s

SentencesOf(content) == CleanSentences(Split(WithoutFinalPeriod(Strip(content)), ". "))

\* The sentences that repeat an earlier sentence.
RepeatsOfEarlier(clean) ==
    Cardinality({ i \in 1..Len(clean) :
                    clean[i] # "" /\ \E j \in 1..(i - 1) : clean[j] = clean[i] })

\* C14: the internal-duplication sub-score is the band of the fraction of
\* sentences that repeat an earlier sentence (ignoring case and surrounding
\* whitespace); for "A. B. A." one of three sentences is a repeat and the
\* sub-score is greater than 0.
C14_RepeatsCounted ==
    plag_ret.op = "check" =>
        /\ plag_ret.plagiarism.copied
               = Banded(RepeatsOfEarlier(SentencesOf(plag_content)),
                        Len(SentencesOf(plag_content)), <<10, 5, 2>>, <<6, 3, 1>>)
        /\ plag_content = "A. B. A." =>
               /\ RepeatsOfEarlier(SentencesOf(plag_content)) = 1
               /\ Len(SentencesOf(plag_content)) = 3
               /\ plag_ret.plagiarism.copied > 0

\* C15: the plagiarism score check returns is the mean of the four
\* sub-scores, common-phrase in {0, 0.1, 0.2, 0.3}, exact-match in
\* {0, 0.2, 0.5, 0.8}, similar-content in {0, 0.2, 0.4, 0.7} and
\* internal-duplication in {0, 0.1, 0.3, 0.6}, and lies in [0, 1].
C15_ScoreIsMean ==
    plag_ret.op = "check" =>
        /\ plag_ret.plagiarism.common \in {0, 1, 2, 3}
        /\ plag_ret.plagiarism.exact \in {0, 2, 5, 8}
        /\ plag_ret.plagiarism.similar \in {0, 2, 4, 7}
        /\ plag_ret.plagiarism.copied \in {0, 1, 3, 6}
        /\ 4 * SubScoreUnit * plag_ret.plagiarism.score
               = PlagUnit * SubScoreSum(plag_ret.plagiarism)
        /\ plag_ret.plagiarism.score \in 0..PlagUnit

\* A text was checked whose four sub-scores are 0.3, 0.5, 0 and 0.3.
C15_Witness ==
    /\ plag_ret.op = "check"
    /\ plag_ret.plagiarism.common = 3
    /\ plag_ret.plagiarism.exact = 5
    /\ plag_ret.plagiarism.similar = 0
    /\ plag_ret.plagiarism.copied = 3
    /\ plag_ret.plagiarism.score = 11

\* The score-based message by the thresholds of the claim.
ThresholdMessage(score) ==
    IF 10 * score > 8 * PlagUnit
    THEN "High plagiarism risk detected. Consider rewriting the content completely."
    ELSE IF 10 * score > 6 * PlagUnit
    THEN "Moderate plagiarism risk. Review and rewrite suspicious sections."
    ELSE IF 10 * score > 3 * PlagUnit
    THEN "Some plagiarism detected. Consider paraphrasing certain sections."
    ELSE "Content appears to be original. Good job!"

\* The buckets among `buckets` that hold a fact of the list.
NonEmptyBuckets(results, buckets) ==
    { b \in buckets : \E i \in 1..Len(results) : results[i].status = b }

\* C16 as stated: the recommendations are the score-based message of the
\* thresholds, then one message for each of the buckets verified, disputed,
\* unverified and false that holds a fact, and nothing else.
C16_OneMessagePerBucket ==
    plag_ret.op = "recommend" =>
        /\ plag_ret.recommendations[1] = ThresholdMessage(plag_ret.plagiarism_score)
        /\ Len(plag_ret.recommendations)
               = 1 + Cardinality(NonEmptyBuckets(plag_ret.fact_check_results,
                         {"verified", "disputed", "unverified", "false"}))

\* The message for n facts of a bucket, as a list that is empty for n = 0.
FoundMessage(n, what) ==
    IF n = 0 THEN << >> ELSE << "Found " \o ToString(n) \o what >>

\* C16, amended: the recommendations are the score-based message of the
\* thresholds, then one message for each of the buckets false, disputed and
\* unverified, in this order, that holds a fact (none for verified facts),
\* then the ready-for-publication message when the score is below 0.2 and
\* the fact list is empty, and nothing else.
C16_MessagesByBucket ==
    plag_ret.op = "recommend" =>
        plag_ret.recommendations =
            << ThresholdMessage(plag_ret.plagiarism_score) >>
            \o FoundMessage(WithStatus(plag_ret.fact_check_results, "false"),
                   " potentially false claims. Please verify and correct.")
            \o FoundMessage(WithStatus(plag_ret.fact_check_results, "disputed"),
                   " disputed claims. Consider providing additional context.")
            \o FoundMessage(WithStatus(plag_ret.fact_check_results, "unverified"),
                   " unverified claims. Consider adding sources or removing claims.")
            \o (IF 10 * plag_ret.plagiarism_score < 2 * PlagUnit
                   /\ plag_ret.fact_check_results = << >>
                THEN << "Content appears to be original and factual. Ready for publication!" >>
                ELSE << >>)

\* Recommendations were made for a list that holds false, disputed and
\* unverified facts.
C16_Witness ==
    /\ plag_ret.op = "recommend"
    /\ Len(plag_ret.recommendations) = 4
    /\ Cardinality(NonEmptyBuckets(plag_ret.fact_check_results,
                       {"disputed", "unverified", "false"})) = 3

(***************************************************************************)
(* Claims about StyleRefiner                                               *)
(***************************************************************************)

\* The words of a text: its maximal runs of word characters, with every
\* other character as a piece of its own.
RunEnd(s, i) == SetMin({ j \in i..Len(s) : ~IsWordChar(Char(s, j + 1)) })

RECURSIVE TokensFrom(_, _)
TokensFrom(s, i) ==
    IF i > Len(s) THEN << >>
    ELSE IF IsWordChar(Char(s, i))
    THEN << SubSeq(s, i, RunEnd(s, i)) >> \o TokensFrom(s, RunEnd(s, i) + 1)
    ELSE << Char(s, i) >> \o TokensFrom(s, i + 1)

Tokens(s) == TokensFrom(s, 1)

\* The word occurs in the text as a whole word, in any letter case.
HasWord(tokens, word) == \E i \in 1..Len(tokens) : Lower(tokens[i]) = word
HasWholeWord(s, word) == HasWord(Tokens(s), word)

\* The text with every whole-word occurrence of a word replaced.
EveryWordReplaced(tokens, old, new) ==
    Join([ i \in 1..Len(tokens) |-> IF Lower(tokens[i]) = old THEN new ELSE tokens[i] ], "")

\* The change-log entry that names a pair.
ReplacedEntry(pair, style) ==
    "Replaced '" \o pair[1] \o "' with '" \o pair[2] \o "' for " \o style \o " style"

IsReplacedEntry(entry) == StartsAt(entry, 1, "Replaced '")

\* What the claim asks of the pass of the loop for one pair.
PairReplaced(step, pair, style) ==
    HasWholeWord(step.before, pair[1]) =>
        /\ step.after = EveryWordReplaced(Tokens(step.before), pair[1], pair[2])
        /\ ~HasWholeWord(step.after, pair[1])
        /\ step.entries = << ReplacedEntry(pair, style) >>

\* The calls in which the style step ran: the first passes of the log are
\* those of the replacement loop, one per pair of the resolved style.
StyleStepRan == sty_ret.op = "refine" /\ sty_style # Unhashable

\* C17: in the word-substitution step, for each pair of the resolved style
\* whose from-word occurs in the text as a whole word, every whole-word
\* occurrence in any letter case is replaced by the to-word and exactly one
\* change-log entry naming the pair is recorded; "We use AI to help people."
\* under "professional" gives one entry for use -> utilize and one for
\* help -> facilitate, and no other replacement entry.
C17_WholeWordsReplaced ==
    StyleStepRan =>
        /\ \A i \in 1..Len(WordReplacements(ResolveStyle(sty_style))) :
              /\ sty_ret.log[i].step = "word"
              /\ PairReplaced(sty_ret.log[i], WordReplacements(ResolveStyle(sty_style))[i],
                              ResolveStyle(sty_style))
        /\ (sty_content = "We use AI to help people." /\ sty_style = "professional"
                /\ ~sty_ret.failed)
            => SelectSeq(sty_ret.changes, IsReplacedEntry)
                   = << "Replaced 'use' with 'utilize' for professional style",
                        "Replaced 'help' with 'facilitate' for professional style" >>

\* A call that replaced three occurrences of one word in three letter cases.
C17_Witness ==
    /\ StyleStepRan
    /\ sty_content = "USE it. Use it, use it"
    /\ sty_style = "professional"
    /\ sty_ret.log[1].after = "utilize it. utilize it, utilize it"
    /\ sty_ret.log[1].entries = << "Replaced 'use' with 'utilize' for professional style" >>

\* The scenario of the specification.
C17_WitnessScenario ==
    /\ sty_content = "We use AI to help people."
    /\ sty_style = "professional"
    /\ ~sty_ret.failed
    /\ sty_ret.log[3].after = "We utilize AI to facilitate people."

\* The steps the change log speaks of; the final polish appends nothing.
LoggedSteps == { "word", "structure", "tone", "length", "audience" }

\* C18: the change log holds an entry for a step if and only if the step
\* changed the text: a step (word substitution for a pair, sentence
\* structure, tone markers, length, audience substitution) whose output
\* equals its input appends no entry. The log returned by a call that did
\* not fail is the entries of its steps, in order.
C18_EntryIffChanged ==
    (sty_ret.op = "refine" /\ ~sty_ret.failed) =>
        \A i \in 1..Len(sty_ret.log) :
            sty_ret.log[i].step \in LoggedSteps =>
                (sty_ret.log[i].entries # << >>
                     <=> sty_ret.log[i].after # sty_ret.log[i].before)

\* A step of the call raises: the membership test of the style step, of
\* the length step or of the audience step meets a list.
StepRaises ==
    sty_style = Unhashable \/ sty_length = Unhashable \/ sty_audience = Unhashable

\* The steps that ran before the failure changed the text or appended
\* entries.
WorkDiscarded ==
    \E i \in 1..Len(sty_ret.log) :
        /\ sty_ret.log[i].after # sty_content
        /\ sty_ret.log[i].entries # << >>

\* C19: when a step of refine raises, refine returns the original text
\* unchanged and a change log of exactly one entry that describes the
\* failure; the changes and the entries of the steps that ran before the
\* failure are discarded.
C19_FailureReturnsOriginal ==
    (sty_ret.op = "refine" /\ StepRaises) =>
        /\ sty_ret.content = sty_content
        /\ Len(sty_ret.changes) = 1
        /\ sty_ret.changes[1] = "Refinement failed: " \o UnhashableMessage

\* A call that fails in the audience step, after the style step and the
\* length step changed the text and appended entries.
C19_Witness ==
    /\ sty_ret.op = "refine"
    /\ sty_content = "We use AI to help people."
    /\ sty_style = "professional"
    /\ sty_length = "short"
    /\ sty_audience = Unhashable
    /\ Len(sty_ret.log) = 9
    /\ sty_ret.log[9].step = "length"
    /\ WorkDiscarded
    /\ sty_ret.content = "We use AI to help people."

\* The sentence at index i after the tone step, when markers go in only
\* above two sentences.
MarkedAboveTwo(sentences, i, style) ==
    IF Len(sentences) > 2 /\ i = Len(sentences)
    THEN ClosingMarker(style) \o " " \o sentences[i]
    ELSE IF Len(sentences) > 2 /\ i = 2
    THEN OpeningMarker(style) \o " " \o Lower(sentences[i])
    ELSE sentences[i]

\* The same, with the closing marker above one sentence.
MarkedAboveOne(sentences, i, style) ==
    IF Len(sentences) > 1 /\ i = Len(sentences)
    THEN ClosingMarker(style) \o " " \o sentences[i]
    ELSE IF Len(sentences) > 2 /\ i = 2
    THEN OpeningMarker(style) \o " " \o Lower(sentences[i])
    ELSE sentences[i]

\* The tone step of the call took the text to what Marked says of each of
\* its sentences.
ToneStepGives(Marked(_, _, _)) ==
    \A k \in 1..Len(sty_ret.log) :
        sty_ret.log[k].step = "tone" =>
            sty_ret.log[k].after =
                Join([ i \in 1..Len(Split(sty_ret.log[k].before, ". ")) |->
                           Marked(Split(sty_ret.log[k].before, ". "), i,
                                  ResolveStyle(sty_style)) ],
                     ". ")

\* C20: the tone-marker step inserts markers only when the text has more
\* than two sentences: the opening marker of the style before the second
\* sentence and its closing marker on the final sentence; a text of one or
\* two sentences is returned by the step without any marker.
C20_MarkersAboveTwoOnly == StyleStepRan => ToneStepGives(MarkedAboveTwo)

\* C20, amended: the tone-marker step puts the closing marker of the style
\* in front of the final sentence when the text has more than one
\* sentence, and the opening marker in front of the lower-cased second
\* sentence when it has more than two; every other sentence is kept, and a
\* text of one sentence is returned without any marker.
C20_ClosingAboveOne == StyleStepRan => ToneStepGives(MarkedAboveOne)

\* A text of two sentences that got the closing marker and no opening one.
C20_Witness ==
    /\ StyleStepRan
    /\ sty_content = "First one. Second one"
    /\ sty_style = "humorous"
    /\ sty_ret.log[8].step = "tone"
    /\ sty_ret.log[8].before = "First one. Second one"
    /\ sty_ret.log[8].after = "First one. Drumroll please... Second one"

\* A text of four sentences that got both markers.
C20_WitnessBoth ==
    /\ StyleStepRan
    /\ sty_content = "A. B. C. D"
    /\ sty_style = "humorous"
    /\ sty_ret.log[8].after = "A. Here's the funny thing: b. C. Drumroll please... D"

\* The target of the claim for the length argument of the call.
TargetOf(length) ==
    IF length = "short" THEN 3 ELSE IF length = "long" THEN 10 ELSE 6

\* The sentences the claim expects of the length step for the sentences it
\* got: the first T, the sentences followed by the first templates up to T
\* or to the end of the pool, or the sentences themselves.
ExpectedSentences(sentences, T) ==
    IF Len(sentences) > T THEN SubSeq(sentences, 1, T)
    ELSE IF 10 * Len(sentences) < 7 * T
    THEN sentences \o SubSeq(ExpansionTemplates, 1,
                             AtMost(T, Len(sentences) + Len(ExpansionTemplates))
                                 - Len(sentences))
    ELSE sentences

LengthStepAsClaimed(step, T) ==
    /\ Split(step.after, ". ") = ExpectedSentences(Split(step.before, ". "), T)
    /\ Len(Split(step.after, ". ")) <= T
    /\ (Len(Split(step.before, ". ")) <= T /\ 10 * Len(Split(step.before, ". ")) >= 7 * T)
           => step.after = step.before

\* C21: with target T of the resolved length (short 3, medium 6, long 10,
\* unknown length medium) and a text of n sentences, the length step yields
\* the first T sentences when n > T, the n sentences followed by templates
\* in pool order, min(T, n + 8) sentences in all, when n < 0.7 * T, and the
\* text unchanged otherwise; its output never has more than T sentences.
C21_LengthStep ==
    sty_ret.op = "refine" =>
        \A k \in 1..Len(sty_ret.log) :
            sty_ret.log[k].step = "length" =>
                LengthStepAsClaimed(sty_ret.log[k], TargetOf(sty_length))

\* A one-sentence text under "long": the pool of eight templates runs out
\* at nine sentences.
C21_Witness ==
    /\ sty_ret.op = "refine"
    /\ sty_content = "Hello world"
    /\ sty_style = "humorous"
    /\ sty_length = "long"
    /\ sty_ret.log[9].step = "length"
    /\ Len(Split(sty_ret.log[9].before, ". ")) = 1
    /\ Len(Split(sty_ret.log[9].after, ". ")) = 9

\* A text of twelve sentences cut to the six of an unknown length.
C21_WitnessShortened ==
    /\ sty_ret.op = "refine"
    /\ sty_content = "a. b. c. d. e. f. g. h. i. j. k. l"
    /\ sty_style = "humorous"
    /\ sty_length = "tiny"
    /\ Len(Split(sty_ret.log[9].after, ". ")) = 6

\* The output sentences from index j on are the input sentences from index
\* i on, each kept or joined with the one after it by ", and " (the second
\* of a pair may be lower-cased, as the code lower-cases it).
RECURSIVE MergedFrom(_, _, _, _)
MergedFrom(input, i, output, j) ==
    IF i > Len(input) THEN j > Len(output)
    ELSE /\ j <= Len(output)
         /\ \/ /\ output[j] = input[i]
               /\ MergedFrom(input, i + 1, output, j + 1)
            \/ /\ i < Len(input)
               /\ output[j] \in { input[i] \o ", and " \o input[i + 1],
                                  input[i] \o ", and " \o Lower(input[i + 1]) }
               /\ MergedFrom(input, i + 2, output, j + 1)

\* C23: for a style whose sentence structure is "complex", every sentence
\* the structure step puts out is one input sentence unchanged or two
\* adjacent input sentences joined by ", and", and every input sentence
\* appears in the output exactly once, whatever the number of sentences.
C23_MergesAdjacentPairs ==
    (StyleStepRan /\ SentenceStructure(ResolveStyle(sty_style)) = "complex") =>
        \A k \in 1..Len(sty_ret.log) :
            sty_ret.log[k].step = "structure" =>
                MergedFrom(Split(sty_ret.log[k].before, ". "), 1,
                           Split(sty_ret.log[k].after, ". "), 1)

\* The fragments of a text: the matches of the patterns in pattern order,
\* then the qualifying sentences in text order.
Fragments(content) == PatternFacts(content, 1) \o FactSentences(Split(content, ". "))

\* C24: when fact checking is requested, the fact list returned by check
\* has exactly min(10, k) entries for the k fragments extracted, and its
\* i-th entry is the verification result of the i-th fragment.
C24_FirstTenFragments ==
    (plag_ret.op = "check" /\ plag_ret.check_facts) =>
        /\ Len(plag_ret.fact_check_results) = AtMost(Len(Fragments(plag_content)), 10)
        /\ \A i \in 1..Len(plag_ret.fact_check_results) :
              /\ plag_ret.fact_check_results[i].fact = Fragments(plag_content)[i]
              /\ plag_ret.fact_check_results[i] = VerifyFact(Fragments(plag_content)[i])

\* A text of more than ten fragments was checked and ten results came back.
C24_Witness ==
    /\ plag_ret.op = "check"
    /\ plag_ret.check_facts
    /\ Len(Fragments(plag_content)) > 10
    /\ Len(plag_ret.fact_check_results) = 10

\* A text of fewer than ten fragments, one of them met twice.
C24_WitnessFew ==
    /\ plag_ret.op = "check"
    /\ plag_ret.check_facts
    /\ Len(plag_ret.fact_check_results) = 8
    /\ plag_ret.fact_check_results[4] = plag_ret.fact_check_results[7]

\* The two messages for a score above 0.6.
RiskMessages ==
    { "High plagiarism risk detected. Consider rewriting the content completely.",
      "Moderate plagiarism risk. Review and rewrite suspicious sections." }

\* C26: the plagiarism score returned by check never exceeds 0.6, so the
\* score-based message of get_recommendations for a score produced by check
\* is neither the "High plagiarism risk" nor the "Moderate plagiarism risk"
\* message. A get_recommendations call that is not the first call of the
\* behaviour was given what check returned.
C26_ScoreAtMostSixTenths ==
    /\ plag_ret.op = "check" =>
           /\ 5 * plag_ret.plagiarism.score <= 3 * PlagUnit
           /\ ScoreMessage(plag_ret.plagiarism.score) \notin RiskMessages
    /\ (plag_ret.op = "recommend" /\ plag_calls > 1) =>
           plag_ret.recommendations[1] \notin RiskMessages

\* The text that takes every heuristic to its highest sub-score was checked
\* and its score, 0.6, was passed to get_recommendations.
C26_Witness ==
    /\ plag_ret.op = "recommend"
    /\ plag_calls > 1
    /\ 5 * plag_ret.plagiarism_score = 3 * PlagUnit
    /\ plag_ret.recommendations[1]
           = "Some plagiarism detected. Consider paraphrasing certain sections."

(***************************************************************************)
(* Claims about generate_multiple_variants                                 *)
(***************************************************************************)

\* C25: the variants generate_multiple_variants returns were each produced
\* by a different provider: no two of them have the same model_used, and
\* the k-th was produced by the k-th requested model, whatever the handles
\* and the outcomes of the provider calls.
C25_VariantsFromDifferentModels ==
    var_pc = "returned" =>
        /\ \A i, j \in 1..Len(ReturnedVariants(var_variants)) :
              i # j => ReturnedVariants(var_variants)[i].variant.model_used
                           # ReturnedVariants(var_variants)[j].variant.model_used
        /\ \A k \in 1..Len(ReturnedVariants(var_variants)) :
              /\ var_models[k] \in Providers
              /\ ReturnedVariants(var_variants)[k].variant.model_used
                     = ModelUsed(var_models[k], TRUE)

(***************************************************************************)
(* Claims about concurrent invocations                                     *)
(***************************************************************************)

\* What the invocation of a frame returns when it runs alone on the
\* instances as it found them, its provider calls ending as they did.
AloneResult(task) ==
    CASE task.kind = "generate" ->
             GenerateContent(task.handles, task.arg[1], task.arg[2], task.arg[3], task.outs)
      [] task.kind = "refine" ->
             Refine(task.arg[1], task.arg[2], task.arg[3], task.arg[4])
      [] task.kind = "optimize" -> Optimize(task.arg[1], task.arg[2], task.arg[3])
      [] task.kind = "check" -> Check(task.arg[1], task.arg[2])

EveryResultAsAlone ==
    \A t \in Tasks :
        conc_tasks[t].pc = "done" => conc_tasks[t].result = AloneResult(conc_tasks[t])

InstancesKept == Handles' = Handles /\ conc_rules' = conc_rules

\* C22: concurrent invocations of generate_content, refine, optimize and
\* check on the shared instances do not interfere: under every interleaving
\* an invocation returns what it returns when run alone with the same
\* provider outcomes, and no step of an invocation changes the state of an
\* instance (the provider handles, the rule tables).
C22_NoInterference == [](EveryResultAsAlone) /\ [][InstancesKept]_vars

\* Two invocations that overlapped, a generate_content that fell through to
\* a later provider and a check with facts, have both returned.
C22_Witness ==
    /\ conc_tasks[1].kind = "generate"
    /\ conc_tasks[1].pc = "done"
    /\ Len(conc_tasks[1].outs) = 2
    /\ conc_tasks[1].overlapped
    /\ conc_tasks[2].kind = "check"
    /\ conc_tasks[2].pc = "done"
    /\ Len(conc_tasks[2].result.fact_check_results) > 1
    /\ conc_tasks[2].overlapped

(***************************************************************************)
(* Claims about the keyword density, the suggestions and the score that    *)
(* optimize returns                                                        *)
(***************************************************************************)

\* C27: for every text and every keyword, the density that
\* _calculate_keyword_density reports is a percentage in [0,100] and the
\* count it reports is at most the number of words of the text.
C27_DensityIsPercentage ==
    seo_ret.op = "density" =>
        \A k \in DOMAIN seo_ret.keyword_density :
            /\ seo_ret.keyword_density[k].density \in 0..(100 * 100)
            /\ seo_ret.keyword_density[k].count <= WordCount(seo_content)

\* C28: what optimize inserts is recognised by the scorer: for a non-empty
\* keyword list and a target URL with a domain, the score optimize returns
\* has title, structure, meta and links components all greater than 0.
C28_InsertedElementsScore ==
    (/\ seo_ret.op = "optimize"
     /\ seo_keywords # <<>>
     /\ seo_target_url # NoUrl
     /\ Netloc(seo_target_url) # "") =>
        /\ seo_ret.seo_score.title > 0
        /\ seo_ret.seo_score.structure > 0
        /\ seo_ret.seo_score.meta > 0
        /\ seo_ret.seo_score.links > 0

\* C29: get_suggestions and the scorer agree on the title: the suggestions
\* contain the "Missing H1 title" suggestion exactly when _evaluate_title
\* returns 0 for the same text and keywords, also on the output of optimize.
C29_SuggestionsAgreeOnTitle ==
    seo_ret.op = "suggestions" =>
        ((\E i \in 1..Len(seo_ret.suggestions) : seo_ret.suggestions[i] = MissingTitle)
            <=> EvaluateTitle(seo_content, seo_keywords) = 0)

\* C30: optimize never lowers the SEO score: the score it returns for the
\* optimized text is at least _calculate_seo_score of its input text with
\* the same keywords.
C30_OptimizeNeverLowersScore ==
    (seo_ret.op = "optimize" /\ ~seo_ret.current_score.raised) =>
        seo_ret.seo_score.total >= seo_ret.current_score.total

====
